---- MODULE Spec2Model ----
(***************************************************************************)
(* Session / OTP state engine of notifyforyou-server (AuthService).        *)
(*                                                                         *)
(* The key-value store is one map from key to [val, exp]; a key whose exp  *)
(* has been reached is gone.  The clock `now` counts seconds (Date.now()   *)
(* is now * 1000), so every duration of the code is kept in seconds.       *)
(* Every service call is a process: one action per store or directory     *)
(* round trip (every `await`), the synchronous code between two awaits     *)
(* belonging to the step that precedes it.  A call that ends shows its     *)
(* outcome in calls[p] (pc = "done") for one state: the caller takes it    *)
(* (Deliver) before anything else happens.  `log` keeps the transitions    *)
(* that ended a session, for the properties that speak of what came later. *)
(***************************************************************************)
EXTENDS Integers, Sequences, FiniteSets, TLC

VARIABLES
    redis,      \* key -> [val |-> value, exp |-> absolute expiry or NoExpiry]
    users,      \* the user directory: userId -> user record
    now,        \* the clock, in seconds
    ticks,      \* how often the clock has advanced
    nextId,     \* the next value uuidv4() returns
    issued,     \* the refresh tokens signed so far
    calls,      \* the service calls, one record per caller
    log,        \* <<transition, session id>> of every completed terminal transition
    linked,     \* <<identifier, session id>> of every index key ever written
    origin      \* OTP session id -> createdAt of the first session of its chain

vars == <<redis, users, now, ticks, nextId, issued, calls, log, linked, origin>>

----------------------------------------------------------------------------
(* Bounds of the model *)

NumCallers == 2
MaxIds == 2
MaxOtpIds == 2
MaxSignupIds == 3
MaxUsers == 2
MaxRemoved == 1
MaxTicks == 1
MaxResendIds == 5
MaxResendTicks == 3

Callers == 1..NumCallers

----------------------------------------------------------------------------
(* appConfig and env *)

TOKEN_EXPIRY_ACCESS_SECONDS == 900
TOKEN_EXPIRY_REFRESH_SECONDS == 1296000
TOKEN_SESSION_TTL_SECONDS == 1296000
OTP_EXPIRES_IN_SECONDS == 600
OTP_MAX_RESENDS == 3
OTP_SESSION_TTL_SECONDS == 86400
INACTIVITY_LOGOUT_DAYS == 7
SECONDS_PER_DAY == 86400

\* An expiry argument as the code hands it over: a number, or a duration
\* string of the `ms` package's format.
Seconds(n) == [int |-> n]
Duration(s, n) == [str |-> s, seconds |-> n]

TOKEN_EXPIRY == [ACCESS |-> Duration("15m", TOKEN_EXPIRY_ACCESS_SECONDS),
                 REFRESH |-> Duration("15d", TOKEN_EXPIRY_REFRESH_SECONDS),
                 SESSION_TTL_SECONDS |-> Seconds(TOKEN_SESSION_TTL_SECONDS)]

OTP == [SECRET |-> "4e8d756b",
        EXPIRES_IN_SECONDS |-> OTP_EXPIRES_IN_SECONDS,
        MAX_RESENDS |-> OTP_MAX_RESENDS,
        SESSION_TTL_SECONDS |-> Seconds(OTP_SESSION_TTL_SECONDS)]

AUTH_FEATURES == [ENABLE_INACTIVITY_LOGOUT |-> TRUE,
                  INACTIVITY_LOGOUT_DAYS |-> INACTIVITY_LOGOUT_DAYS]

JWT_ACCESS_SECRET == "access-secret"
JWT_REFRESH_SECRET == "refresh-secret"

SIGNUP_VERIFY == "SIGNUP_VERIFY"
RESET_PASSWORD == "RESET_PASSWORD"
SIGNIN == "SIGNIN"

\* undefined / null where a record is expected, and where a string is
None == [none |-> TRUE]
Undefined == ""

----------------------------------------------------------------------------
(* The key-value store: Redis commands *)

NoExpiry == -1

getSessionKey(sessionId) == <<"auth:session", sessionId>>
getUserAccountKey(userKey) == <<"auth:signup", userKey>>
getUserForgotKey(userKey) == <<"auth:forgot", userKey>>
getUserSessionsKey(userId) == <<"auth:user:sessions", userId>>

\* Redis reads its expiry argument as an integer; anything else is an error
\* of that command ("value is not an integer or out of range").
IsInteger(arg) == "int" \in DOMAIN arg

Exists(store, key) == key \in DOMAIN store

\* GET: the value, or None
Get(store, key) == IF Exists(store, key) THEN store[key].val ELSE None

\* SMEMBERS: the members; a missing key is the empty set
SMembers(store, key) == IF Exists(store, key) THEN store[key].val ELSE {}

Put(store, key, entry) ==
    [k \in DOMAIN store \cup {key} |-> IF k = key THEN entry ELSE store[k]]

Remove(store, key) == [k \in DOMAIN store \ {key} |-> store[k]]

\* One command applied to the store at time t.  A command that fails changes
\* nothing.
Apply(store, c, t) ==
    CASE c.cmd = "setex" ->
           IF IsInteger(c.ttl)
           THEN Put(store, c.key, [val |-> c.val, exp |-> t + c.ttl.int])
           ELSE store
      [] c.cmd = "del" -> Remove(store, c.key)
      [] c.cmd = "sadd" ->
           IF Exists(store, c.key)
           THEN Put(store, c.key, [val |-> store[c.key].val \cup {c.member},
                                   exp |-> store[c.key].exp])
           ELSE Put(store, c.key, [val |-> {c.member}, exp |-> NoExpiry])
      [] c.cmd = "srem" ->
           IF ~Exists(store, c.key) THEN store
           ELSE IF store[c.key].val \ {c.member} = {} THEN Remove(store, c.key)
           ELSE Put(store, c.key, [val |-> store[c.key].val \ {c.member},
                                   exp |-> store[c.key].exp])
      [] c.cmd = "expire" ->
           IF IsInteger(c.ttl) /\ Exists(store, c.key)
           THEN Put(store, c.key, [val |-> store[c.key].val,
                                   exp |-> t + c.ttl.int])
           ELSE store

\* MULTI ... EXEC: the queued commands applied in order as one unit; a
\* command that fails when it runs does not stop the ones after it.
RECURSIVE Exec(_, _, _)
Exec(store, cmds, t) ==
    IF cmds = <<>> THEN store
    ELSE Exec(Apply(store, Head(cmds), t), Tail(cmds), t)

Setex(key, ttl, val) == [cmd |-> "setex", key |-> key, ttl |-> ttl, val |-> val]
Del(key) == [cmd |-> "del", key |-> key]
SAdd(key, member) == [cmd |-> "sadd", key |-> key, member |-> member]
SRem(key, member) == [cmd |-> "srem", key |-> key, member |-> member]
Expire(key, ttl) == [cmd |-> "expire", key |-> key, ttl |-> ttl]

\* Keys whose time to live has run out are gone.
Evict(store, t) ==
    LET live == {k \in DOMAIN store : store[k].exp = NoExpiry \/ store[k].exp > t}
    IN  [k \in live |-> store[k]]

----------------------------------------------------------------------------
(* The user directory (UserModel) *)

PROVIDER_LOCAL == "LOCAL"
PROVIDER_GOOGLE == "GOOGLE"
STATUS_ACTIVE == "ACTIVE"
STATUS_SUSPENDED == "SUSPENDED"

\* String.prototype.toLowerCase over the identifiers of the model.
toLowerCase(s) ==
    CASE s = "A@x.com" -> "a@x.com"
      [] s = "B@x.com" -> "b@x.com"
      [] OTHER -> s

\* A lookup by the email alone
MatchingEmailOnly(dir, email, username, phoneNumber) ==
    {id \in DOMAIN dir : ~dir[id].deleted /\ dir[id].email = email}

\* The directory keeps a removed record as a tombstone (deleted = TRUE), so
\* that its _id is never handed out again.
\* UserModel.findOne({ $or: [{ email }, { username }, { phoneNumber }] }):
\* the ids of the users one of the conditions matches.
Matching(dir, email, username, phoneNumber) ==
    {id \in DOMAIN dir :
        /\ ~dir[id].deleted
        /\ \/ (email # Undefined /\ dir[id].email = email)
           \/ (username # Undefined /\ dir[id].username = username)
           \/ (phoneNumber # Undefined /\ dir[id].phoneNumber = phoneNumber)}

\* The lookup by identifier of signin, resend and forgot-password.
FindByIdentifier(dir, identifier) ==
    Matching(dir, toLowerCase(identifier), identifier, identifier)

\* bcrypt: hashPassword and verifyPassword
hashPassword(password) == <<"bcrypt", password>>
verifyPassword(password, hash) == hash = hashPassword(password)

----------------------------------------------------------------------------
(* Tokens (token.util.ts): jwt.sign and jwt.verify *)

Sign(payload, secret, expiresIn, t) ==
    [sub |-> payload.sub, sessionId |-> payload.sessionId, type |-> payload.type,
     key |-> secret, exp |-> t + expiresIn.seconds]

generateAccessToken(payload, t) ==
    Sign(payload, JWT_ACCESS_SECRET, TOKEN_EXPIRY.ACCESS, t)

generateRefreshToken(payload, t) ==
    Sign(payload, JWT_REFRESH_SECRET, TOKEN_EXPIRY.REFRESH, t)

\* jwt.verify with the refresh secret: the payload, or the error it throws.
verifyRefreshToken(token, t) ==
    IF token.key # JWT_REFRESH_SECRET THEN [error |-> "JsonWebTokenError"]
    ELSE IF t >= token.exp THEN [error |-> "TokenExpiredError"]
    ELSE [sub |-> token.sub, sessionId |-> token.sessionId, type |-> token.type]

----------------------------------------------------------------------------
(* Service calls *)

Idle == [op |-> "none", pc |-> "idle", arg |-> None, loc |-> None, res |-> None]

\* A returned value and a thrown error
Return(data) == [ok |-> TRUE, data |-> data]
AppError(message, statusCode) ==
    [ok |-> FALSE, error |-> "AppError", message |-> message,
     statusCode |-> statusCode]
Thrown(name) == [ok |-> FALSE, error |-> name]

\* Caller p's call ends with outcome r.
Finish(p, op, arg, r) ==
    calls' = [calls EXCEPT ![p] =
                [op |-> op, pc |-> "done", arg |-> arg, loc |-> calls[p].loc,
                 res |-> r]]

\* Caller p's call goes on at step pc with the locals loc.
Await(p, op, arg, pc, loc) ==
    calls' = [calls EXCEPT ![p] =
                [op |-> op, pc |-> pc, arg |-> arg, loc |-> loc, res |-> None]]

\* No outcome is waiting to be taken.
Quiet == \A q \in Callers : calls[q].pc # "done"

At(p, pc) == Quiet /\ calls[p].pc = pc
IsIdle(p) == At(p, "idle")

\* The caller takes the outcome of its call.
Deliver(p) ==
    /\ calls[p].pc = "done"
    /\ calls' = [calls EXCEPT ![p] = Idle]
    /\ UNCHANGED <<redis, users, now, ticks, nextId, issued, log, linked, origin>>

\* uuidv4(): an id never returned before
\* (the model stops drawing ids at maxId)
CanMint(maxId) == nextId <= maxId
uuidv4 == nextId

MintedIds == 1..(nextId - 1)

----------------------------------------------------------------------------
(* Initial state: an empty store, a directory holding one verified user. *)

SeedUser ==
    [email |-> "a@x.com", username |-> "alice", phoneNumber |-> "5550001",
     emailIsVerified |-> TRUE, status |-> STATUS_ACTIVE, statusMeta |-> None,
     provider |-> PROVIDER_LOCAL, password |-> hashPassword("Passw0rd!a"),
     deleted |-> FALSE]

Init ==
    /\ redis = <<>>
    /\ users = [id \in {"u1"} |-> SeedUser]
    /\ now = 1
    /\ ticks = 0
    /\ nextId = 1
    /\ issued = {}
    /\ calls = [p \in Callers |-> Idle]
    /\ log = {}
    /\ linked = {}
    /\ origin = <<>>


----------------------------------------------------------------------------
(* Inputs the callers draw from *)

UserIdInputs == {"u1", "u2"}
SigninIdentifiers == {"a@x.com", "b@x.com"}
SigninPasswords == {"Passw0rd!a", "Wr0ng!pass"}

\* { ...r, ...upd }
Merge(r, upd) ==
    [k \in DOMAIN r \cup DOMAIN upd |-> IF k \in DOMAIN upd THEN upd[k] ELSE r[k]]

RECURSIVE SetToSeq(_)
SetToSeq(S) ==
    IF S = {} THEN <<>>
    ELSE LET x == CHOOSE y \in S : TRUE IN <<x>> \o SetToSeq(S \ {x})

----------------------------------------------------------------------------
(* signinService *)

\* The checks without the one on the verified address
SigninRefusalUnverified(found, password) ==
    IF found = {} THEN AppError("Invalid credentials.", 401)
    ELSE LET user == users[CHOOSE id \in found : TRUE] IN
         IF user.provider # PROVIDER_LOCAL THEN
             AppError("This account uses social login. Please sign in with the appropriate provider.", 400)
         ELSE IF user.status # STATUS_ACTIVE \/ user.statusMeta # None THEN
             AppError("Your account is not active. Please contact support.", 403)
         ELSE IF ~verifyPassword(password, user.password) THEN
             AppError("Invalid credentials.", 401)
         ELSE None

\* The checks of signinService on the directory's answer: the error thrown,
\* or None.
SigninRefusal(found, password) ==
    IF found = {} THEN AppError("Invalid credentials.", 401)
    ELSE LET user == users[CHOOSE id \in found : TRUE] IN
         IF user.provider # PROVIDER_LOCAL THEN
             AppError("This account uses social login. Please sign in with the appropriate provider.", 400)
         ELSE IF ~user.emailIsVerified THEN
             AppError("Please verify your email address before signing in.", 403)
         ELSE IF user.status # STATUS_ACTIVE \/ user.statusMeta # None THEN
             AppError("Your account is not active. Please contact support.", 403)
         ELSE IF ~verifyPassword(password, user.password) THEN
             AppError("Invalid credentials.", 401)
         ELSE None

\* findOne, the account checks, verifyPassword; the session is built and its
\* id drawn before the batch is sent.
SigninFind(p) ==
    \E identifier \in SigninIdentifiers, password \in SigninPasswords :
        LET arg == [identifier |-> identifier, password |-> password]
            found == FindByIdentifier(users, identifier)
            refusal == SigninRefusal(found, password)
        IN  /\ IsIdle(p)
            /\ IF refusal # None
               THEN /\ Finish(p, "signin", arg, refusal)
                    /\ UNCHANGED nextId
               ELSE LET id == CHOOSE u \in found : TRUE
                        session ==
                            [type |-> SIGNIN,
                             email |-> users[id].email,
                             username |-> users[id].username,
                             phoneNumber |-> users[id].phoneNumber,
                             userId |-> id,
                             verified |-> TRUE, used |-> FALSE,
                             lastActivityAt |-> now, createdAt |-> now]
                    IN  /\ CanMint(MaxIds)
                        /\ Await(p, "signin", arg, "signin:exec",
                                 [userId |-> id, sessionId |-> uuidv4,
                                  session |-> session])
                        /\ nextId' = nextId + 1
            /\ UNCHANGED <<redis, users, now, ticks, issued, log, linked, origin>>

\* The batch of signinService and the two tokens.
SigninBatch(loc) ==
    <<Setex(getSessionKey(loc.sessionId), TOKEN_EXPIRY.SESSION_TTL_SECONDS,
            loc.session),
      SAdd(getUserSessionsKey(loc.userId), loc.sessionId),
      Expire(getUserSessionsKey(loc.userId), TOKEN_EXPIRY.SESSION_TTL_SECONDS)>>

SigninExec(p) ==
    /\ At(p, "signin:exec")
    /\ LET loc == calls[p].loc
           accessToken == generateAccessToken(
               [sub |-> loc.userId, sessionId |-> loc.sessionId, type |-> "ACCESS"], now)
           refreshToken == generateRefreshToken(
               [sub |-> loc.userId, sessionId |-> loc.sessionId, type |-> "REFRESH"], now)
       IN  /\ redis' = Exec(redis, SigninBatch(loc), now)
           /\ issued' = issued \cup {refreshToken}
           /\ Finish(p, "signin", calls[p].arg,
                     Return([user |-> loc.userId,
                             tokens |-> [accessToken |-> accessToken,
                                         refreshToken |-> refreshToken]]))
    /\ UNCHANGED <<users, now, ticks, nextId, log, linked, origin>>

----------------------------------------------------------------------------
(* refreshAccessTokenService *)

InactivityLimit == AUTH_FEATURES.INACTIVITY_LOGOUT_DAYS * SECONDS_PER_DAY

\* No session is ever taken for inactive
NeverInactive(session, t) == FALSE

\* The inactivity check of refreshAccessTokenService.
Inactive(session, t) ==
    /\ AUTH_FEATURES.ENABLE_INACTIVITY_LOGOUT
    /\ "lastActivityAt" \in DOMAIN session
    /\ t - session.lastActivityAt > InactivityLimit

\* The verification without the check of the payload's type
TokenRefusalAnyType(token, t) ==
    LET payload == verifyRefreshToken(token, t) IN
    IF "error" \in DOMAIN payload THEN Thrown(payload.error)
    ELSE None

\* What refresh and rotate do with the token before they touch the store:
\* the error thrown, or None.
TokenRefusal(token, t) ==
    LET payload == verifyRefreshToken(token, t) IN
    IF "error" \in DOMAIN payload THEN Thrown(payload.error)
    ELSE IF payload.type # "REFRESH" THEN AppError("Invalid refresh token.", 401)
    ELSE None

RefreshGetWith(p, tokens) ==
    \E token \in tokens :
        LET arg == [refreshToken |-> token]
            refusal == TokenRefusal(token, now)
            sessionData == Get(redis, getSessionKey(token.sessionId))
        IN  /\ IsIdle(p)
            /\ IF refusal # None THEN Finish(p, "refresh", arg, refusal)
               ELSE IF sessionData = None THEN
                   Finish(p, "refresh", arg,
                          AppError("Session has expired. Please sign in again.", 401))
               ELSE IF Inactive(sessionData, now) THEN
                   Finish(p, "refresh", arg,
                          AppError("Session expired due to inactivity. Please sign in again.", 401))
               ELSE Await(p, "refresh", arg, "refresh:setex",
                          [session |-> Merge(sessionData, [lastActivityAt |-> now])])
            /\ UNCHANGED <<redis, users, now, ticks, nextId, issued, log, linked, origin>>

\* Called with a refresh token the services have issued
RefreshGet(p) == RefreshGetWith(p, issued)

RefreshSetex(p) ==
    /\ At(p, "refresh:setex")
    /\ LET token == calls[p].arg.refreshToken
           newAccessToken == generateAccessToken(
               [sub |-> token.sub, sessionId |-> token.sessionId, type |-> "ACCESS"], now)
       IN  /\ redis' = Apply(redis,
                             Setex(getSessionKey(token.sessionId),
                                   TOKEN_EXPIRY.SESSION_TTL_SECONDS,
                                   calls[p].loc.session), now)
           /\ Finish(p, "refresh", calls[p].arg,
                     Return([newAccessToken |-> newAccessToken]))
    /\ UNCHANGED <<users, now, ticks, nextId, issued, log, linked, origin>>


----------------------------------------------------------------------------
(* rotateRefreshTokenService *)

RotateGetWith(p, tokens, maxId) ==
    \E token \in tokens :
        LET arg == [refreshToken |-> token]
            refusal == TokenRefusal(token, now)
            oldSession == Get(redis, getSessionKey(token.sessionId))
        IN  /\ IsIdle(p)
            /\ IF refusal # None
               THEN Finish(p, "rotate", arg, refusal) /\ UNCHANGED nextId
               ELSE IF oldSession = None
               THEN /\ Finish(p, "rotate", arg,
                          AppError("Session has expired. Please sign in again.", 401))
                    /\ UNCHANGED nextId
               ELSE /\ CanMint(maxId)
                    /\ Await(p, "rotate", arg, "rotate:exec",
                             [newSessionId |-> uuidv4,
                              newSession |-> Merge(oldSession,
                                  [createdAt |-> now, lastActivityAt |-> now]),
                              userId |-> IF "userId" \in DOMAIN oldSession
                                            /\ oldSession.userId # Undefined
                                         THEN oldSession.userId ELSE token.sub])
                    /\ nextId' = nextId + 1
            /\ UNCHANGED <<redis, users, now, ticks, issued, log, linked, origin>>

\* Called with a refresh token the services have issued
RotateGet(p) == RotateGetWith(p, issued, MaxIds)

\* The batch without the DEL of the old session's key
RotateBatchKeepingOld(oldSessionId, loc) ==
    <<Setex(getSessionKey(loc.newSessionId), TOKEN_EXPIRY.REFRESH, loc.newSession),
      SAdd(getUserSessionsKey(loc.userId), loc.newSessionId),
      Expire(getUserSessionsKey(loc.userId), TOKEN_EXPIRY.REFRESH),
      SRem(getUserSessionsKey(loc.userId), oldSessionId)>>

\* The batch of rotateRefreshTokenService.
RotateBatch(oldSessionId, loc) ==
    <<Setex(getSessionKey(loc.newSessionId), TOKEN_EXPIRY.REFRESH, loc.newSession),
      SAdd(getUserSessionsKey(loc.userId), loc.newSessionId),
      Expire(getUserSessionsKey(loc.userId), TOKEN_EXPIRY.REFRESH),
      Del(getSessionKey(oldSessionId)),
      SRem(getUserSessionsKey(loc.userId), oldSessionId)>>

RotateExec(p) ==
    /\ At(p, "rotate:exec")
    /\ LET token == calls[p].arg.refreshToken
           loc == calls[p].loc
           newAccessToken == generateAccessToken(
               [sub |-> token.sub, sessionId |-> loc.newSessionId, type |-> "ACCESS"], now)
           newRefreshToken == generateRefreshToken(
               [sub |-> token.sub, sessionId |-> loc.newSessionId, type |-> "REFRESH"], now)
       IN  /\ redis' = Exec(redis, RotateBatch(token.sessionId, loc), now)
           /\ issued' = issued \cup {newRefreshToken}
           /\ Finish(p, "rotate", calls[p].arg,
                     Return([newAccessToken |-> newAccessToken,
                             newRefreshToken |-> newRefreshToken]))
    /\ log' = log \cup {<<"rotate", calls[p].arg.refreshToken.sessionId>>}
    /\ UNCHANGED <<users, now, ticks, nextId, linked, origin>>

----------------------------------------------------------------------------
(* logoutService and logoutAllSessionsService *)

\* The checks without the comparison of the owner
LogoutRefusalAnyOwner(session, userId) ==
    IF session = None THEN AppError("Session not found or already expired.", 404)
    ELSE None

\* The checks of logoutService on the session it read: the error thrown, or
\* None.
LogoutRefusal(session, userId) ==
    IF session = None THEN AppError("Session not found or already expired.", 404)
    ELSE IF session.userId # userId THEN
        AppError("Session does not belong to this user.", 403)
    ELSE None

LogoutGet(p) ==
    \E sessionId \in MintedIds, userId \in UserIdInputs :
        LET arg == [sessionId |-> sessionId, userId |-> userId]
            session == Get(redis, getSessionKey(sessionId))
            refusal == LogoutRefusal(session, userId)
        IN  /\ IsIdle(p)
            /\ IF refusal # None THEN Finish(p, "logout", arg, refusal)
               ELSE Await(p, "logout", arg, "logout:exec", None)
            /\ UNCHANGED <<redis, users, now, ticks, nextId, issued, log, linked, origin>>

LogoutBatch(arg) ==
    <<Del(getSessionKey(arg.sessionId)),
      SRem(getUserSessionsKey(arg.userId), arg.sessionId)>>

LogoutExec(p) ==
    /\ At(p, "logout:exec")
    /\ redis' = Exec(redis, LogoutBatch(calls[p].arg), now)
    /\ Finish(p, "logout", calls[p].arg, Return(None))
    /\ log' = log \cup {<<"logout", calls[p].arg.sessionId>>}
    /\ UNCHANGED <<users, now, ticks, nextId, issued, linked, origin>>

LogoutAllMembers(p) ==
    \E userId \in UserIdInputs :
        LET arg == [userId |-> userId]
            sessionIds == SMembers(redis, getUserSessionsKey(userId))
        IN  /\ IsIdle(p)
            /\ IF sessionIds = {} THEN Finish(p, "logoutAll", arg, Return(None))
               ELSE Await(p, "logoutAll", arg, "logoutAll:exec",
                          [sessionIds |-> sessionIds])
            /\ UNCHANGED <<redis, users, now, ticks, nextId, issued, log, linked, origin>>

\* The batch without the DEL of the user's set
LogoutAllBatchKeepingSet(arg, sessionIds) ==
    LET ids == SetToSeq(sessionIds) IN
    [i \in 1..Len(ids) |-> Del(getSessionKey(ids[i]))]

LogoutAllBatch(arg, sessionIds) ==
    LET ids == SetToSeq(sessionIds) IN
    [i \in 1..Len(ids) |-> Del(getSessionKey(ids[i]))]
        \o <<Del(getUserSessionsKey(arg.userId))>>

LogoutAllExec(p) ==
    /\ At(p, "logoutAll:exec")
    /\ redis' = Exec(redis, LogoutAllBatch(calls[p].arg, calls[p].loc.sessionIds), now)
    /\ Finish(p, "logoutAll", calls[p].arg, Return(None))
    /\ UNCHANGED <<users, now, ticks, nextId, issued, log, linked, origin>>

----------------------------------------------------------------------------
(* Time *)

SessionClockSteps == {1}

\* The clock advances by d seconds; the keys that expire meanwhile are gone.
Advance(d) ==
    /\ Quiet
    /\ ticks < MaxTicks
    /\ now' = now + d
    /\ ticks' = ticks + 1
    /\ redis' = Evict(redis, now + d)
    /\ UNCHANGED <<users, nextId, issued, calls, log, linked, origin>>

SessionTick == \E d \in SessionClockSteps : Advance(d)

----------------------------------------------------------------------------
(* The sign-in family: signin, refresh, rotate, logout, logout-all *)

SessionNext ==
    \/ \E p \in Callers :
        \/ SigninFind(p) \/ SigninExec(p)
        \/ RefreshGet(p) \/ RefreshSetex(p)
        \/ RotateGet(p) \/ RotateExec(p)
        \/ LogoutGet(p) \/ LogoutExec(p)
        \/ LogoutAllMembers(p) \/ LogoutAllExec(p)
        \/ Deliver(p)
    \/ SessionTick

SpecSession == Init /\ [][SessionNext]_vars

----------------------------------------------------------------------------
(* Properties of the sign-in family (checked under SpecSession) *)

\* Caller p's call of op starts in this step / ends in this step.
Starts(p, op) == calls[p].pc = "idle" /\ calls'[p].pc # "idle" /\ calls'[p].op = op
Ends(p, op) == calls[p].pc # "done" /\ calls'[p].pc = "done" /\ calls'[p].op = op

\* The call of caller p of op has just ended, with success / with status code.
Succeeded(p, op) == calls[p].pc = "done" /\ calls[p].op = op /\ calls[p].res.ok
Refused(p, op, statusCode) ==
    /\ calls[p].pc = "done" /\ calls[p].op = op
    /\ "statusCode" \in DOMAIN calls[p].res
    /\ calls[p].res.statusCode = statusCode

\* What a step leaves alone when a call is refused: store, directory, ids,
\* tokens.
NothingChanges ==
    /\ redis' = redis /\ users' = users /\ nextId' = nextId /\ issued' = issued

\* C1: once a rotation of session s has completed, a refresh or a rotation
\* that presents the refresh token of s is refused, whenever it started.
\* (Stated for the calls that start after the rotation completed.)
C1_OldTokenRefusedAfterRotation ==
    [][\A p \in Callers : \A op \in {"refresh", "rotate"} :
          (Starts(p, op)
             /\ <<"rotate", calls'[p].arg.refreshToken.sessionId>> \in log)
          => (calls'[p].pc = "done" /\ ~calls'[p].res.ok)]_vars

C3_RotatePostcondition ==
    \A p \in Callers :
        Succeeded(p, "rotate") =>
            LET old == calls[p].arg.refreshToken.sessionId
                loc == calls[p].loc
            IN  /\ Exists(redis, getSessionKey(loc.newSessionId))
                /\ Get(redis, getSessionKey(loc.newSessionId)) = loc.newSession
                /\ loc.newSessionId \in SMembers(redis, getUserSessionsKey(loc.userId))
                /\ ~Exists(redis, getSessionKey(old))
                /\ old \notin SMembers(redis, getUserSessionsKey(loc.userId))

\* C5: once a logout of session s has completed, no record is stored under s.
C5_LogoutIsTerminal ==
    \A s \in MintedIds : <<"logout", s>> \in log => ~Exists(redis, getSessionKey(s))

\* C6: a logout whose userId is not the owner of the stored session is
\* refused with 403 Forbidden and changes nothing.
C6_LogoutOfAnothersSession ==
    [][\A p \in Callers :
          (Starts(p, "logout")
             /\ Exists(redis, getSessionKey(calls'[p].arg.sessionId))
             /\ Get(redis, getSessionKey(calls'[p].arg.sessionId)).userId
                    # calls'[p].arg.userId)
          => (/\ calls'[p].pc = "done"
              /\ "statusCode" \in DOMAIN calls'[p].res
              /\ calls'[p].res.statusCode = 403
              /\ NothingChanges)]_vars

\* A logout has been refused with 403 and the session is still stored.
C6_Witness ==
    \E p \in Callers :
        /\ Refused(p, "logout", 403)
        /\ Exists(redis, getSessionKey(calls[p].arg.sessionId))

\* C7: a sign-in that succeeds stores its session under an id not in use
\* before and puts the id into the user's set; logout-all reads every id of
\* the set, and when it has completed none of them resolves and the set is
\* gone.
C7_SigninThenLogoutAll ==
    [][\A p \in Callers :
          /\ (Ends(p, "signin") /\ calls'[p].res.ok) =>
                LET loc == calls'[p].loc IN
                /\ ~Exists(redis, getSessionKey(loc.sessionId))
                /\ loc.sessionId \notin SMembers(redis, getUserSessionsKey(loc.userId))
                /\ Exists(redis', getSessionKey(loc.sessionId))
                /\ SMembers(redis', getUserSessionsKey(loc.userId))
                       = SMembers(redis, getUserSessionsKey(loc.userId))
                             \cup {loc.sessionId}
          /\ (Starts(p, "logoutAll") /\ calls'[p].pc # "done") =>
                calls'[p].loc.sessionIds
                    = SMembers(redis, getUserSessionsKey(calls'[p].arg.userId))
          /\ (Ends(p, "logoutAll") /\ ~Starts(p, "logoutAll")) =>
                /\ \A s \in calls'[p].loc.sessionIds :
                       ~Exists(redis', getSessionKey(s))
                /\ ~Exists(redis', getUserSessionsKey(calls'[p].arg.userId))]_vars

\* Logout-all has completed for a user who had two sessions.
C7_Witness ==
    \E p \in Callers :
        /\ Succeeded(p, "logoutAll")
        /\ calls[p].loc # None
        /\ Cardinality(calls[p].loc.sessionIds) = 2

----------------------------------------------------------------------------
(* OTP utilities (otp.util.ts) *)

\* The codes generateOtp returns in this model, and the codes a caller submits.
GeneratedOtps == {"123456"}
OtpCodes == {"123456", "654321"}

\* HMAC-SHA256 of the code under OTP.SECRET, as a hex digest of 32 bytes.
hashOtp(otp) == [hmac |-> <<OTP.SECRET, otp>>, bytes |-> 32]

\* The digest read from the empty string
EmptyHex == [hmac |-> <<>>, bytes |-> 0]

\* A comparison of the two lengths only
verifyOtpByLength(otp, hashedOtp) ==
    IF hashedOtp.bytes # hashOtp(otp).bytes THEN [throws |-> "RangeError"]
    ELSE [value |-> TRUE]

\* crypto.timingSafeEqual throws when the two buffers differ in length.
verifyOtp(otp, hashedOtp) ==
    IF hashedOtp.bytes # hashOtp(otp).bytes THEN [throws |-> "RangeError"]
    ELSE [value |-> hashedOtp = hashOtp(otp)]

\* formatRemainingTime(ms), on seconds
CeilDiv(a, b) == (a + b - 1) \div b
formatRemainingTime(seconds) ==
    LET minutes == CeilDiv(seconds, 60) IN
    IF minutes < 60 THEN <<minutes, IF minutes > 1 THEN "minutes" ELSE "minute">>
    ELSE LET hours == CeilDiv(minutes, 60)
         IN  <<hours, IF hours > 1 THEN "hours" ELSE "hour">>

Max(a, b) == IF a > b THEN a ELSE b

----------------------------------------------------------------------------
(* Inputs of the OTP flows *)

UserIdSeq == <<"u1", "u2", "u3">>

SignupInputs ==
    {[email |-> "b@x.com", username |-> "bob", phoneNumber |-> Undefined,
      password |-> "Passw0rd!b"],
     [email |-> "a@x.com", username |-> "carol", phoneNumber |-> Undefined,
      password |-> "Passw0rd!c"]}

\* The identifiers a resend is called with: the address as stored and as typed
OtpIdentifiers(flow) ==
    IF flow = "signup" THEN {"b@x.com", "B@x.com"} ELSE {"a@x.com", "A@x.com"}
NewPasswords == {"NewPassw0rd!1", "NewPassw0rd!2"}

\* No session token supplied
NoToken == 0

\* What a resend is called with: a session token or an identifier.
ResendInputs(flow) ==
    {[sessionToken |-> t, identifier |-> Undefined] : t \in MintedIds}
        \cup {[sessionToken |-> NoToken, identifier |-> x] : x \in OtpIdentifiers(flow)}

\* What the service is called with when it is called directly: the request type
\* lets both fields be set.
ServiceInputs(flow) ==
    ResendInputs(flow)
        \cup {[sessionToken |-> t, identifier |-> x] :
                 t \in MintedIds, x \in OtpIdentifiers(flow)}

\* The two flow families that carry an OTP
FlowType(flow) == IF flow = "signup" THEN SIGNUP_VERIFY ELSE RESET_PASSWORD
ExpiredMessage(flow) ==
    IF flow = "signup"
    THEN "Verification session has expired. Please request a new code."
    ELSE "Password reset session has expired. Please request a new code."
IndexKey(flow, x) ==
    IF flow = "signup" THEN getUserAccountKey(x) ELSE getUserForgotKey(x)

\* removeDuplicates(list), without the entries that are not set
Identifiers(list) == {list[i] : i \in 1..Len(list)} \ {Undefined}

\* The chains of resends: the session stored under id continues the chain of
\* the session it replaces (old), or starts a chain of its own.
Chained(chains, old, id, session) ==
    [s \in (DOMAIN chains \ {old}) \cup {id} |->
        IF s # id THEN chains[s]
        ELSE IF old \in DOMAIN chains THEN chains[old]
        ELSE session.createdAt]

\* The batch that stores an OTP session and links its identifiers to it.
OtpBatch(flow, identifiers, sessionId, session) ==
    LET xs == SetToSeq(identifiers) IN
    [i \in 1..Len(xs) |->
        Setex(IndexKey(flow, xs[i]), OTP.SESSION_TTL_SECONDS, sessionId)]
        \o <<Setex(getSessionKey(sessionId), OTP.SESSION_TTL_SECONDS, session)>>

----------------------------------------------------------------------------
(* signupService *)

SignupFindWith(p, inputs) ==
    \E input \in inputs :
        LET existing == Matching(users, input.email, input.username,
                                 input.phoneNumber)
        IN  /\ IsIdle(p)
            /\ IF existing # {}
               THEN Finish(p, "signup", input,
                      AppError("An account already exists with the provided credentials.",
                               409))
               ELSE Await(p, "signup", input, "signup:create", None)
            /\ UNCHANGED <<redis, users, now, ticks, nextId, issued, log, linked, origin>>

\* Called with a request of the controller
SignupFind(p) == SignupFindWith(p, SignupInputs)

\* The record UserModel.create stores, with the schema's defaults.
NewUser(input) ==
    [email |-> toLowerCase(input.email), username |-> input.username,
     phoneNumber |-> input.phoneNumber, emailIsVerified |-> FALSE,
     status |-> STATUS_ACTIVE, statusMeta |-> None, provider |-> PROVIDER_LOCAL,
     password |-> hashPassword(input.password), deleted |-> FALSE]

\* The session signupService builds for the user it created.
SignupSession(user, id, otp, t) ==
    [type |-> SIGNUP_VERIFY,
     email |-> user.email, phoneNumber |-> user.phoneNumber,
     username |-> user.username, userId |-> id,
     otp |-> otp, otpHash |-> hashOtp(otp),
     otpExpiresAt |-> t + OTP.EXPIRES_IN_SECONDS,
     otpAttempts |-> 0, otpResendCount |-> 0,
     used |-> FALSE, verified |-> FALSE, createdAt |-> t]

\* UserModel.create (the unique indexes refuse a duplicate), then the session
\* and its batch are built.
SignupCreate(p, maxId) ==
    /\ At(p, "signup:create")
    /\ LET input == calls[p].arg
           clash == Matching(users, toLowerCase(input.email), input.username,
                             input.phoneNumber)
       IN  IF clash # {}
           THEN /\ Finish(p, "signup", input, Thrown("MongoServerError"))
                /\ UNCHANGED <<users, nextId, linked, origin>>
           ELSE \E otp \in GeneratedOtps :
                LET id == UserIdSeq[Cardinality(DOMAIN users) + 1]
                    user == NewUser(input)
                IN  /\ Cardinality(DOMAIN users) < MaxUsers
                    /\ CanMint(maxId)
                    /\ users' = [u \in DOMAIN users \cup {id} |->
                                    IF u = id THEN user ELSE users[u]]
                    /\ nextId' = nextId + 1
                    /\ Await(p, "signup", input, "signup:exec",
                             [sessionId |-> uuidv4,
                              identifiers |-> Identifiers(<<user.email,
                                  user.phoneNumber, user.username>>),
                              session |-> SignupSession(user, id, otp, now)])
    /\ UNCHANGED <<redis, now, ticks, issued, log, linked, origin>>

SignupExec(p) ==
    /\ At(p, "signup:exec")
    /\ LET loc == calls[p].loc
       IN  /\ redis' = Exec(redis, OtpBatch("signup", loc.identifiers,
                                            loc.sessionId, loc.session), now)
           /\ Finish(p, "signup", calls[p].arg,
                     Return([sessionToken |-> loc.sessionId]))
           /\ linked' = linked \cup (loc.identifiers \X {loc.sessionId})
           /\ origin' = Chained(origin, NoToken, loc.sessionId, loc.session)
    /\ UNCHANGED <<users, now, ticks, nextId, issued, log>>

----------------------------------------------------------------------------
(* signupResendVerificationService and forgotPasswordService: the same code *)
(* over the two index namespaces, flow = "signup" or "forgot".              *)

FlowOp(flow) == IF flow = "signup" THEN "signupResend" ELSE "forgotPassword"

\* The validation without the ceiling on resends
ResendRefusalUnlimited(flow, session, t) ==
    IF session.type # FlowType(flow) THEN
        AppError(IF flow = "signup" THEN "Invalid verification session."
                 ELSE "Invalid password reset session.", 400)
    ELSE None

\* The validation without the check of the session's type
ResendRefusalAnyType(flow, session, t) ==
    LET otpResendCount == session.otpResendCount + 1
        remaining == Max(session.createdAt + OTP.EXPIRES_IN_SECONDS - t, 0)
    IN  IF otpResendCount > OTP.MAX_RESENDS /\ remaining # 0 THEN
            AppError(<<"resend limit reached", formatRemainingTime(remaining)>>, 429)
        ELSE None

\* The validation of the session a resend resolved, at time t: the error
\* thrown, or None.
ResendRefusal(flow, session, t) ==
    LET otpResendCount == session.otpResendCount + 1
        remaining == Max(session.createdAt + OTP.EXPIRES_IN_SECONDS - t, 0)
    IN  IF session.type # FlowType(flow) THEN
            AppError(IF flow = "signup" THEN "Invalid verification session."
                     ELSE "Invalid password reset session.", 400)
        ELSE IF otpResendCount > OTP.MAX_RESENDS /\ remaining # 0 THEN
            AppError(<<"resend limit reached", formatRemainingTime(remaining)>>, 429)
        ELSE None

\* The count carried over as it was read
ResendCountUnchanged(session) == session.otpResendCount

\* session.otpResendCount once the validation has passed
ResendCount(session) ==
    IF session.otpResendCount + 1 > OTP.MAX_RESENDS THEN 1
    ELSE session.otpResendCount + 1

\* The checks on the user found, without those on the account's state
ResendUserRefusalAnyAccount(flow, found) ==
    IF found = {} THEN AppError("No account found with the provided identifier.", 404)
    ELSE None

\* The checks on the directory's answer when no session was resolved.
ResendUserRefusal(flow, found) ==
    IF found = {} THEN AppError("No account found with the provided identifier.", 404)
    ELSE LET user == users[CHOOSE id \in found : TRUE] IN
         IF user.status # STATUS_ACTIVE \/ user.statusMeta # None THEN
             AppError("Your account is not active. Please contact support.", 403)
         ELSE IF flow = "signup" /\ user.emailIsVerified THEN
             AppError("This account is already verified.", 409)
         ELSE None

\* updatedSession, from the resolved session or from the user found.
ResentSession(flow, source, userId, count, otp, t) ==
    [type |-> IF "type" \in DOMAIN source THEN source.type ELSE FlowType(flow),
     email |-> source.email, phoneNumber |-> source.phoneNumber,
     username |-> source.username, userId |-> userId,
     otp |-> otp, otpHash |-> hashOtp(otp),
     otpExpiresAt |-> t + OTP.EXPIRES_IN_SECONDS,
     otpAttempts |-> IF "otpAttempts" \in DOMAIN source THEN source.otpAttempts
                     ELSE 0,
     otpResendCount |-> count,
     used |-> FALSE, verified |-> FALSE, createdAt |-> t]

\* The locals of a resend that keeps the key of the session it resolved
ResendLocalsSameKey(flow, input, sessionId, source, userId, count, otp) ==
    [sessionId |-> sessionId,
     newSessionId |-> IF sessionId # 0 THEN sessionId ELSE uuidv4,
     identifiers |-> Identifiers(<<input.identifier, source.email,
                                   source.phoneNumber, source.username>>),
     session |-> ResentSession(flow, source, userId, count, otp, now)]

\* The locals of a resend once the new session is built.
ResendLocals(flow, input, sessionId, source, userId, count, otp) ==
    [sessionId |-> sessionId, newSessionId |-> uuidv4,
     identifiers |-> Identifiers(<<input.identifier, source.email,
                                   source.phoneNumber, source.username>>),
     session |-> ResentSession(flow, source, userId, count, otp, now)]

\* The resend goes on with the session it resolved under sessionId.
ResendWithSession(p, flow, maxId, input, sessionId, session) ==
    LET refusal == ResendRefusal(flow, session, now) IN
    IF refusal # None
    THEN Finish(p, FlowOp(flow), input, refusal) /\ UNCHANGED nextId
    ELSE \E otp \in GeneratedOtps :
         /\ CanMint(maxId)
         /\ nextId' = nextId + 1
         /\ Await(p, FlowOp(flow), input, "resend:del",
                  ResendLocals(flow, input, sessionId, session, session.userId,
                               ResendCount(session), otp))

\* The token route is taken only when no identifier comes with the token
TokenRouteUnlessIdentifier(input) ==
    input.sessionToken # NoToken /\ input.identifier = Undefined

\* if (input.sessionToken)
TokenRoute(input) == input.sessionToken # NoToken

\* First read: the session under the token, or the index entry of the
\* identifier.
ResendStartWith(p, flow, maxId, inputs) ==
    \E input \in inputs :
        /\ IsIdle(p)
        /\ IF TokenRoute(input)
           THEN LET sessionData == Get(redis, getSessionKey(input.sessionToken))
                IN  IF sessionData = None
                    THEN /\ Finish(p, FlowOp(flow), input,
                                   AppError(ExpiredMessage(flow), 410))
                         /\ UNCHANGED nextId
                    ELSE ResendWithSession(p, flow, maxId, input, input.sessionToken,
                                           sessionData)
           ELSE /\ IF Exists(redis, IndexKey(flow, input.identifier))
                   THEN Await(p, FlowOp(flow), input, "resend:session",
                              [storedSessionId |->
                                  Get(redis, IndexKey(flow, input.identifier))])
                   ELSE Await(p, FlowOp(flow), input, "resend:find", None)
                /\ UNCHANGED nextId
        /\ UNCHANGED <<redis, users, now, ticks, issued, log, linked, origin>>

\* Second read of the identifier route: the session the index entry names.
ResendSession(p, flow, maxId) ==
    /\ At(p, "resend:session")
    /\ calls[p].op = FlowOp(flow)
    /\ LET input == calls[p].arg
           storedSessionId == calls[p].loc.storedSessionId
           sessionData == Get(redis, getSessionKey(storedSessionId))
       IN  IF sessionData = None
           THEN /\ Await(p, FlowOp(flow), input, "resend:find", None)
                /\ UNCHANGED nextId
           ELSE ResendWithSession(p, flow, maxId, input, storedSessionId,
                                  sessionData)
    /\ UNCHANGED <<redis, users, now, ticks, issued, log, linked, origin>>

\* No session resolved: the directory is asked.
ResendFind(p, flow, maxId) ==
    /\ At(p, "resend:find")
    /\ calls[p].op = FlowOp(flow)
    /\ LET input == calls[p].arg
           found == FindByIdentifier(users, input.identifier)
           refusal == ResendUserRefusal(flow, found)
       IN  IF refusal # None
           THEN Finish(p, FlowOp(flow), input, refusal) /\ UNCHANGED nextId
           ELSE \E otp \in GeneratedOtps :
                LET id == CHOOSE u \in found : TRUE IN
                /\ CanMint(maxId)
                /\ nextId' = nextId + 1
                /\ Await(p, FlowOp(flow), input, "resend:exec",
                         ResendLocals(flow, input, NoToken, users[id], id, 1, otp))
    /\ UNCHANGED <<redis, users, now, ticks, issued, log, linked, origin>>

\* redisClient.del of the resolved session's key, sent ahead of the batch.
ResendDel(p, flow) ==
    /\ At(p, "resend:del")
    /\ calls[p].op = FlowOp(flow)
    /\ redis' = Apply(redis, Del(getSessionKey(calls[p].loc.sessionId)), now)
    /\ Await(p, FlowOp(flow), calls[p].arg, "resend:exec", calls[p].loc)
    /\ UNCHANGED <<users, now, ticks, nextId, issued, log, linked, origin>>

ResendExec(p, flow) ==
    /\ At(p, "resend:exec")
    /\ calls[p].op = FlowOp(flow)
    /\ LET loc == calls[p].loc
       IN  /\ redis' = Exec(redis, OtpBatch(flow, loc.identifiers,
                                            loc.newSessionId, loc.session), now)
           /\ linked' = linked \cup (loc.identifiers \X {loc.newSessionId})
           /\ origin' = Chained(origin, loc.sessionId, loc.newSessionId, loc.session)
           /\ Finish(p, FlowOp(flow), calls[p].arg,
                     Return([sessionToken |-> loc.newSessionId]))
    /\ UNCHANGED <<users, now, ticks, nextId, issued, log>>

\* The service as the controllers call it
ResendStart(p, flow, maxId) == ResendStartWith(p, flow, maxId, ResendInputs(flow))

----------------------------------------------------------------------------
(* signupVerifyOtpService and resetPasswordService *)

VerifyInputs ==
    {[sessionToken |-> t, otp |-> otp] : t \in MintedIds, otp \in OtpCodes}
ResetInputs ==
    {[sessionToken |-> t, otp |-> otp, newPassword |-> pw] :
        t \in MintedIds, otp \in OtpCodes, pw \in NewPasswords}

\* session.otpHash || ""
StoredHash(session) ==
    IF "otpHash" \in DOMAIN session THEN session.otpHash ELSE EmptyHex

\* The checks without the comparison of the code
OtpRefusalAnyCode(flow, sessionData, otp) ==
    IF sessionData = None THEN
        AppError(ExpiredMessage(flow), 410)
    ELSE IF sessionData.type # FlowType(flow) THEN
        AppError(IF flow = "signup" THEN "Invalid verification session."
                 ELSE "Invalid password reset session.", 400)
    ELSE None

\* The checks both services make on the session they read: the error thrown,
\* or None.
OtpRefusal(flow, sessionData, otp) ==
    IF sessionData = None THEN
        AppError(ExpiredMessage(flow), 410)
    ELSE IF sessionData.type # FlowType(flow) THEN
        AppError(IF flow = "signup" THEN "Invalid verification session."
                 ELSE "Invalid password reset session.", 400)
    ELSE LET isValidOtp == verifyOtp(otp, StoredHash(sessionData)) IN
         IF "throws" \in DOMAIN isValidOtp THEN Thrown(isValidOtp.throws)
         ELSE IF ~isValidOtp.value THEN
             AppError(IF flow = "signup" THEN "Invalid verification code."
                      ELSE "Invalid password reset code.", 400)
         ELSE None

\* A lookup that still finds a record that has left the directory
FoundThoughRemoved(dir, id) == id \in DOMAIN dir

\* findById: the directory holds a record under id.
Found(dir, id) == id \in DOMAIN dir /\ ~dir[id].deleted

\* UserModel.findByIdAndUpdate(id, { $set: upd }, { new: true }): the
\* directory afterwards
FindByIdAndUpdate(dir, id, upd) ==
    IF Found(dir, id)
    THEN [dir EXCEPT ![id] = Merge(dir[id], upd)]
    ELSE dir

\* A batch that removes the user's session set as well
CleanupBatchWithSessions(flow, sessionToken, user) ==
    LET xs == SetToSeq(Identifiers(<<user.email, user.phoneNumber, user.username>>))
    IN  [i \in 1..Len(xs) |-> Del(IndexKey(flow, xs[i]))]
            \o <<Del(getSessionKey(sessionToken)),
                 Del(getUserSessionsKey(
                        CHOOSE u \in DOMAIN users : users[u].email = user.email))>>

\* The batch that removes the session and the index entries of the user.
CleanupBatch(flow, sessionToken, user) ==
    LET xs == SetToSeq(Identifiers(<<user.email, user.phoneNumber, user.username>>))
    IN  [i \in 1..Len(xs) |-> Del(IndexKey(flow, xs[i]))]
            \o <<Del(getSessionKey(sessionToken))>>

VerifyGet(p) ==
    \E input \in VerifyInputs :
        LET sessionData == Get(redis, getSessionKey(input.sessionToken))
            refusal == OtpRefusal("signup", sessionData, input.otp)
        IN  /\ IsIdle(p)
            /\ IF refusal # None THEN Finish(p, "signupVerifyOtp", input, refusal)
               ELSE Await(p, "signupVerifyOtp", input, "verify:update",
                          [userId |-> sessionData.userId])
            /\ UNCHANGED <<redis, users, now, ticks, nextId, issued, log, linked, origin>>

VerifyUpdate(p) ==
    /\ At(p, "verify:update")
    /\ LET id == calls[p].loc.userId
           updated == FindByIdAndUpdate(users, id, [emailIsVerified |-> TRUE])
       IN  /\ users' = updated
           /\ IF Found(users, id)
              THEN Await(p, "signupVerifyOtp", calls[p].arg, "verify:exec",
                         [updatedUser |-> updated[id]])
              ELSE Finish(p, "signupVerifyOtp", calls[p].arg,
                     AppError("Verification session is no longer valid. Please request a new code.",
                              410))
    /\ UNCHANGED <<redis, now, ticks, nextId, issued, log, linked, origin>>

VerifyExec(p) ==
    /\ At(p, "verify:exec")
    /\ redis' = Exec(redis, CleanupBatch("signup", calls[p].arg.sessionToken,
                                         calls[p].loc.updatedUser), now)
    /\ Finish(p, "signupVerifyOtp", calls[p].arg, Return(None))
    /\ log' = log \cup {<<"signupVerifyOtp", calls[p].arg.sessionToken>>}
    /\ UNCHANGED <<users, now, ticks, nextId, issued, linked, origin>>

ResetGet(p) ==
    \E input \in ResetInputs :
        LET sessionData == Get(redis, getSessionKey(input.sessionToken))
            refusal == OtpRefusal("forgot", sessionData, input.otp)
        IN  /\ IsIdle(p)
            /\ IF refusal # None THEN Finish(p, "resetPassword", input, refusal)
               ELSE Await(p, "resetPassword", input, "reset:update",
                          [userId |-> sessionData.userId])
            /\ UNCHANGED <<redis, users, now, ticks, nextId, issued, log, linked, origin>>

\* hashPassword, then findByIdAndUpdate
ResetUpdate(p) ==
    /\ At(p, "reset:update")
    /\ LET id == calls[p].loc.userId
           passwordHash == hashPassword(calls[p].arg.newPassword)
           updated == FindByIdAndUpdate(users, id, [password |-> passwordHash])
       IN  /\ users' = updated
           /\ IF Found(users, id)
              THEN Await(p, "resetPassword", calls[p].arg, "reset:exec",
                         [updatedUser |-> updated[id]])
              ELSE Finish(p, "resetPassword", calls[p].arg,
                     AppError("Password reset session is no longer valid. Please request a new code.",
                              410))
    /\ UNCHANGED <<redis, now, ticks, nextId, issued, log, linked, origin>>

ResetExec(p) ==
    /\ At(p, "reset:exec")
    /\ redis' = Exec(redis, CleanupBatch("forgot", calls[p].arg.sessionToken,
                                         calls[p].loc.updatedUser), now)
    /\ Finish(p, "resetPassword", calls[p].arg, Return(None))
    /\ log' = log \cup {<<"resetPassword", calls[p].arg.sessionToken>>}
    /\ UNCHANGED <<users, now, ticks, nextId, issued, linked, origin>>

----------------------------------------------------------------------------
(* The environment of the OTP flows *)

\* A record leaves the directory (nothing in AuthService removes one).
DeleteUser ==
    \E id \in DOMAIN users :
        /\ Quiet
        /\ ~users[id].deleted
        /\ Cardinality({u \in DOMAIN users : users[u].deleted}) < MaxRemoved
        /\ users' = [users EXCEPT ![id].deleted = TRUE]
        /\ UNCHANGED <<redis, now, ticks, nextId, issued, calls, log, linked, origin>>

\* The clock of the OTP flows steps over the lifetime of a session.
OtpClockSteps == {OTP.SESSION_TTL_SECONDS.int}
OtpTick == \E d \in OtpClockSteps : Advance(d)

----------------------------------------------------------------------------
(* The signup family: signup, resend, verify *)

SignupNext ==
    \/ \E p \in Callers :
        \/ SignupFind(p) \/ SignupCreate(p, MaxSignupIds) \/ SignupExec(p)
        \/ ResendStart(p, "signup", MaxSignupIds)
        \/ ResendSession(p, "signup", MaxSignupIds)
        \/ ResendFind(p, "signup", MaxSignupIds)
        \/ ResendDel(p, "signup") \/ ResendExec(p, "signup")
        \/ VerifyGet(p) \/ VerifyUpdate(p) \/ VerifyExec(p)
        \/ Deliver(p)
    \/ DeleteUser
    \/ OtpTick

SpecSignup == Init /\ [][SignupNext]_vars

----------------------------------------------------------------------------
(* The OTP flows together: signup, resend, verify, forgot-password, reset *)

OtpNext ==
    \/ \E p \in Callers :
        \/ SignupFind(p) \/ SignupCreate(p, MaxOtpIds) \/ SignupExec(p)
        \/ \E flow \in {"signup", "forgot"} :
            \/ ResendStart(p, flow, MaxOtpIds)
            \/ ResendSession(p, flow, MaxOtpIds)
            \/ ResendFind(p, flow, MaxOtpIds)
            \/ ResendDel(p, flow) \/ ResendExec(p, flow)
        \/ VerifyGet(p) \/ VerifyUpdate(p) \/ VerifyExec(p)
        \/ ResetGet(p) \/ ResetUpdate(p) \/ ResetExec(p)
        \/ Deliver(p)
    \/ DeleteUser
    \/ OtpTick

SpecOtp == Init /\ [][OtpNext]_vars

----------------------------------------------------------------------------
(* Properties of the OTP flows (checked under SpecOtp and SpecSignup) *)

VerifyOps == {"signupVerifyOtp", "resetPassword"}
FlowOf(op) == IF op = "signupVerifyOtp" THEN "signup" ELSE "forgot"

\* resolve(flow, x): the index entry of x names a session that is stored.
Resolves(store, flow, x) ==
    /\ Exists(store, IndexKey(flow, x))
    /\ Exists(store, getSessionKey(Get(store, IndexKey(flow, x))))

\* C4: at most one verify call returns success for a session; a verify of a
\* session never completes with success once another has.
C4_OneVerifyPerSession ==
    [][\A p \in Callers : \A op \in VerifyOps :
          (Ends(p, op) /\ calls'[p].res.ok)
          => <<op, calls'[p].arg.sessionToken>> \notin log]_vars

\* C8: when signupVerifyOtpService has succeeded for session s, no record is
\* stored under s and no identifier ever linked to s resolves to a stored
\* session in the signup namespace.
C8_VerifiedSessionUnresolvable ==
    \A p \in Callers :
        Succeeded(p, "signupVerifyOtp") =>
            LET s == calls[p].arg.sessionToken IN
            /\ ~Exists(redis, getSessionKey(s))
            /\ \A link \in linked :
                   link[2] = s => ~Resolves(redis, "signup", link[1])

\* C9: a verify call whose code is not the one of the stored session of its
\* flow is refused with 400 and changes nothing; a verify call with the
\* session's code is never refused, whatever was tried before.
C9_WrongOtpChangesNothing ==
    [][\A p \in Callers : \A op \in VerifyOps :
          LET session == Get(redis, getSessionKey(calls'[p].arg.sessionToken)) IN
          (Starts(p, op)
             /\ Exists(redis, getSessionKey(calls'[p].arg.sessionToken))
             /\ session.type = FlowType(FlowOf(op)))
          => IF calls'[p].arg.otp # session.otp
             THEN /\ calls'[p].pc = "done"
                  /\ "statusCode" \in DOMAIN calls'[p].res
                  /\ calls'[p].res.statusCode = 400
                  /\ calls'[p].res.message
                        \in {"Invalid verification code.", "Invalid password reset code."}
                  /\ NothingChanges
             ELSE calls'[p].pc # "done"]_vars

\* A verify has been refused for its code; the session, resent once, is
\* still stored.
C9_Witness ==
    \E p \in Callers : \E op \in VerifyOps :
        /\ Refused(p, op, 400)
        /\ Exists(redis, getSessionKey(calls[p].arg.sessionToken))
        /\ Get(redis, getSessionKey(calls[p].arg.sessionToken)).otp # calls[p].arg.otp
        /\ Get(redis, getSessionKey(calls[p].arg.sessionToken)).otpResendCount = 1

\* C10: a verify call that passed the checks on the session and whose
\* directory update finds no record ends with 410 Gone, not with success.
C10_NoRecordIsGone ==
    [][\A p \in Callers : \A op \in VerifyOps :
          (calls[p].op = op /\ calls[p].pc \in {"verify:update", "reset:update"}
             /\ calls'[p].pc # calls[p].pc
             /\ (calls[p].loc.userId \notin DOMAIN users
                   \/ users[calls[p].loc.userId].deleted))
          => (/\ calls'[p].pc = "done"
              /\ ~calls'[p].res.ok
              /\ "statusCode" \in DOMAIN calls'[p].res
              /\ calls'[p].res.statusCode = 410
              /\ NothingChanges)]_vars

\* A reset has ended with 410 after it had read its session.
C10_Witness ==
    \E p \in Callers :
        /\ Refused(p, "resetPassword", 410)
        /\ calls[p].loc # None

----------------------------------------------------------------------------
(* Resends in sequence: one caller, signup and forgot-password, the clock   *)
(* stepping by half the OTP window.                                         *)

\* The clock advances by d seconds, at most maxTicks times.
Elapse(d, maxTicks) ==
    /\ Quiet
    /\ ticks < maxTicks
    /\ now' = now + d
    /\ ticks' = ticks + 1
    /\ redis' = Evict(redis, now + d)
    /\ UNCHANGED <<users, nextId, issued, calls, log, linked, origin>>

ResendClockSteps == {OTP.EXPIRES_IN_SECONDS \div 2}
ResendTick == \E d \in ResendClockSteps : Elapse(d, MaxResendTicks)

\* The one caller of the sequential runs
Sequential == {1}

ResendNext ==
    \/ \E p \in Sequential :
        \/ SignupFind(p) \/ SignupCreate(p, MaxResendIds) \/ SignupExec(p)
        \/ ResendStart(p, "signup", MaxResendIds)
        \/ ResendSession(p, "signup", MaxResendIds)
        \/ ResendFind(p, "signup", MaxResendIds)
        \/ ResendDel(p, "signup") \/ ResendExec(p, "signup")
        \/ Deliver(p)
    \/ ResendTick

SpecResend == Init /\ [][ResendNext]_vars

ForgotNext ==
    \/ \E p \in Sequential :
        \/ ResendStart(p, "forgot", MaxResendIds)
        \/ ResendSession(p, "forgot", MaxResendIds)
        \/ ResendFind(p, "forgot", MaxResendIds)
        \/ ResendDel(p, "forgot") \/ ResendExec(p, "forgot")
        \/ Deliver(p)
    \/ ResendTick

SpecForgot == Init /\ [][ForgotNext]_vars

----------------------------------------------------------------------------
(* Properties of the resend ceiling (checked under SpecResend, SpecForgot) *)

\* Caller p's resend of op resolves a stored session in this step: by its
\* token, or by the index entry of its identifier.
ResolvesSession(p, op) ==
    /\ calls'[p].op = op
    /\ \/ /\ calls[p].pc = "idle" /\ calls'[p].pc # "idle"
          /\ calls'[p].arg.sessionToken # NoToken
          /\ Exists(redis, getSessionKey(calls'[p].arg.sessionToken))
       \/ /\ calls[p].pc = "resend:session" /\ calls'[p].pc # "resend:session"
          /\ Exists(redis, getSessionKey(calls[p].loc.storedSessionId))

\* The id of the session resolved in that step, and its record
ResolvedId(p) ==
    IF calls[p].pc = "idle" THEN calls'[p].arg.sessionToken
    ELSE calls[p].loc.storedSessionId
Resolved(p) == Get(redis, getSessionKey(ResolvedId(p)))

\* The step refuses the call of p with 429 and writes nothing.
TooManyRequests(p) ==
    /\ calls'[p].pc = "done"
    /\ "statusCode" \in DOMAIN calls'[p].res
    /\ calls'[p].res.statusCode = 429
    /\ NothingChanges

\* C11: signupService stores its session with resend count 0; a signup resend
\* that resolves a session resent fewer than MAX_RESENDS times goes on and
\* carries the count plus one, and one that resolves a session resent
\* MAX_RESENDS times within the OTP window of that session is refused with
\* 429 and changes neither the session nor the index.
C11_SignupResendCeiling ==
    [][\A p \in Callers :
          /\ (Ends(p, "signup") /\ calls'[p].res.ok) =>
                Get(redis', getSessionKey(calls'[p].loc.sessionId)).otpResendCount = 0
          /\ ResolvesSession(p, "signupResend") =>
                IF Resolved(p).otpResendCount < OTP.MAX_RESENDS
                THEN /\ calls'[p].pc = "resend:del"
                     /\ calls'[p].loc.session.otpResendCount
                            = Resolved(p).otpResendCount + 1
                ELSE now < Resolved(p).createdAt + OTP.EXPIRES_IN_SECONDS
                        => TooManyRequests(p)]_vars

\* The fourth resend of a signup session has been refused with 429: four ids
\* are in use and the stored session has been resent MAX_RESENDS times.
C11_Witness ==
    \E p \in Callers :
        /\ Refused(p, "signupResend", 429)
        /\ nextId = OTP.MAX_RESENDS + 2
        /\ Exists(redis, getSessionKey(OTP.MAX_RESENDS + 1))
        /\ Get(redis, getSessionKey(OTP.MAX_RESENDS + 1)).otpResendCount
               = OTP.MAX_RESENDS

\* C12: in the forgot-password flow the sessions of a chain carry the counts
\* 1, 2, ..., so the MAX_RESENDS resends after the first call resolve counts
\* 1..MAX_RESENDS: within the window none of them is refused.
C12_ForgotResendCeiling ==
    [][\A p \in Callers :
          (ResolvesSession(p, "forgotPassword")
             /\ Resolved(p).otpResendCount <= OTP.MAX_RESENDS
             /\ now < Resolved(p).createdAt + OTP.EXPIRES_IN_SECONDS)
          => calls'[p].pc = "resend:del"]_vars

\* C13: a signup resend over the ceiling succeeds with count 1 when the
\* window of the first session of the chain has elapsed, and is refused with
\* 429 while time remains in that window.
C13_CeilingResetsAfterWindow ==
    [][\A p \in Callers :
          (ResolvesSession(p, "signupResend")
             /\ Resolved(p).otpResendCount >= OTP.MAX_RESENDS
             /\ ResolvedId(p) \in DOMAIN origin)
          => IF now >= origin[ResolvedId(p)] + OTP.EXPIRES_IN_SECONDS
             THEN /\ calls'[p].pc = "resend:del"
                  /\ calls'[p].loc.session.otpResendCount = 1
             ELSE TooManyRequests(p)]_vars

----------------------------------------------------------------------------
(* Properties of resend, token precedence and the stored record *)

ResendOps == {"signupResend", "forgotPassword"}
ResendFlowOf(op) == IF op = "signupResend" THEN "signup" ELSE "forgot"

\* The identity snapshot of a session record
Snapshot(session) ==
    [type |-> session.type, email |-> session.email,
     phoneNumber |-> session.phoneNumber, username |-> session.username,
     userId |-> session.userId]

MaxDirectIds == 3
DirectNext ==
    \/ \E p \in Sequential :
        \/ SignupFind(p) \/ SignupCreate(p, MaxDirectIds) \/ SignupExec(p)
        \/ \E flow \in {"signup", "forgot"} :
            \/ ResendStartWith(p, flow, MaxDirectIds, ServiceInputs(flow))
            \/ ResendSession(p, flow, MaxDirectIds)
            \/ ResendFind(p, flow, MaxDirectIds)
            \/ ResendDel(p, flow) \/ ResendExec(p, flow)
        \/ Deliver(p)
    \/ OtpTick
SpecDirect == Init /\ [][DirectNext]_vars

\* C15: a resend called with a token that resolves to no record ends at once
\* with 410 and writes nothing; it reads the identifier index only when it was
\* called without a token, and asks the directory only when, in addition, the
\* index gave no stored session (no entry, or an entry naming no record).
C15_TokenTakesPrecedence ==
    [][\A p \in Callers : \A op \in ResendOps :
          LET flow == ResendFlowOf(op)
              arg == calls'[p].arg
          IN
          /\ (Starts(p, op) /\ arg.sessionToken # NoToken
                /\ ~Exists(redis, getSessionKey(arg.sessionToken))) =>
                /\ calls'[p].pc = "done"
                /\ calls'[p].res = AppError(ExpiredMessage(flow), 410)
                /\ NothingChanges
          /\ (calls'[p].op = op /\ calls'[p].pc \in {"resend:session", "resend:find"}) =>
                arg.sessionToken = NoToken
          /\ (Starts(p, op) /\ calls'[p].pc = "resend:find") =>
                ~Exists(redis, IndexKey(flow, arg.identifier))
          /\ (calls[p].op = op /\ calls[p].pc = "resend:session"
                /\ calls'[p].pc = "resend:find") =>
                ~Exists(redis, getSessionKey(calls[p].loc.storedSessionId))]_vars

\* A resend called with an identifier and a token that names no record has
\* been refused with 410.
C15_Witness ==
    \E p \in Callers : \E op \in ResendOps :
        /\ Refused(p, op, 410)
        /\ calls[p].arg.sessionToken # NoToken
        /\ calls[p].arg.identifier # Undefined
        /\ Exists(redis, IndexKey(ResendFlowOf(op), calls[p].arg.identifier))

----------------------------------------------------------------------------
(* Sign-in and refresh over the accounts the directory can hold *)

\* The account of the directory as it can be: local or federated, verified or
\* not, active or suspended, with or without a status note.
AccountVariants ==
    {Merge(SeedUser, [provider |-> pr, emailIsVerified |-> v, status |-> st,
                      statusMeta |-> meta]) :
        pr \in {PROVIDER_LOCAL, PROVIDER_GOOGLE}, v \in BOOLEAN,
        st \in {STATUS_ACTIVE, STATUS_SUSPENDED},
        meta \in {None, [reason |-> "under review"]}}

InitSignin ==
    /\ redis = <<>>
    /\ users \in {[id \in {"u1"} |-> account] : account \in AccountVariants}
    /\ now = 1
    /\ ticks = 0
    /\ nextId = 1
    /\ issued = {}
    /\ calls = [p \in Callers |-> Idle]
    /\ log = {}
    /\ linked = {}
    /\ origin = <<>>

\* Days pass between two requests of a client.
MaxLongTicks == 4
LongClockSteps == {4 * SECONDS_PER_DAY}
LongTick == \E d \in LongClockSteps : Elapse(d, MaxLongTicks)

SigninNext ==
    \/ \E p \in Callers :
        \/ SigninFind(p) \/ SigninExec(p)
        \/ RefreshGet(p) \/ RefreshSetex(p)
        \/ Deliver(p)
    \/ LongTick
SpecSignin == InitSignin /\ [][SigninNext]_vars

\* The account the identifier names passes the five conditions of sign-in.
SigninConditions(identifier, password) ==
    LET found == FindByIdentifier(users, identifier) IN
    /\ found # {}
    /\ \A id \in found :
          /\ users[id].provider = PROVIDER_LOCAL
          /\ users[id].emailIsVerified
          /\ users[id].status = STATUS_ACTIVE
          /\ verifyPassword(password, users[id].password)

\* C16: signinService goes on to create a session only if the record exists,
\* its provider is local, its email is verified, its status is active and the
\* password matches; otherwise it ends with an error and the step writes
\* nothing.  When it has succeeded, the SIGNIN record is stored under an id
\* that was not in use, the id is a member of the user's session set and the
\* two tokens name it.
C16_SigninOnlyWhenAllowed ==
    [][\A p \in Callers :
          /\ Starts(p, "signin") =>
                LET arg == calls'[p].arg IN
                /\ calls'[p].pc \in {"signin:exec", "done"}
                /\ calls'[p].pc = "signin:exec" =>
                       SigninConditions(arg.identifier, arg.password)
                /\ ~SigninConditions(arg.identifier, arg.password) =>
                       /\ calls'[p].pc = "done"
                       /\ ~calls'[p].res.ok
                       /\ NothingChanges
                /\ calls'[p].pc = "done" => (~calls'[p].res.ok /\ NothingChanges)
          /\ (Ends(p, "signin") /\ calls'[p].res.ok) =>
                LET loc == calls[p].loc
                    tokens == calls'[p].res.data.tokens
                IN
                /\ calls[p].pc = "signin:exec"
                /\ ~Exists(redis, getSessionKey(loc.sessionId))
                /\ Get(redis', getSessionKey(loc.sessionId)) = loc.session
                /\ loc.session.type = SIGNIN
                /\ loc.sessionId \in SMembers(redis', getUserSessionsKey(loc.userId))
                /\ tokens.accessToken.sessionId = loc.sessionId
                /\ tokens.refreshToken.sessionId = loc.sessionId
                /\ tokens.refreshToken \in issued']_vars

\* A sign-in has succeeded and its id is in the user's session set.
C16_Witness ==
    \E p \in Callers :
        /\ Succeeded(p, "signin")
        /\ calls[p].loc.sessionId
              \in SMembers(redis, getUserSessionsKey(calls[p].loc.userId))

\* A sign-in to an existing account was refused and the store is empty.
C16_RefusedWitness ==
    \E p \in Callers :
        /\ Refused(p, "signin", 403)
        /\ redis = <<>>

\* C17: a refresh that goes on keeps type and identity of the record it read
\* and stamps it with the current time; when it has succeeded the record is
\* under the same id, as stamped, with a full time to live, and no id was
\* drawn.  A refresh of a record whose last activity lies further back than
\* the inactivity limit ends with 401 and the step changes nothing.
C17_RefreshKeepsSession ==
    [][\A p \in Callers :
          LET token == calls'[p].arg.refreshToken
              key == getSessionKey(token.sessionId)
          IN
          /\ (Starts(p, "refresh") /\ calls'[p].pc = "refresh:setex") =>
                LET stored == Get(redis, key)
                    session == calls'[p].loc.session
                IN  /\ Exists(redis, key)
                    /\ Snapshot(session) = Snapshot(stored)
                    /\ session.createdAt = stored.createdAt
                    /\ session.lastActivityAt = now
                    /\ now - stored.lastActivityAt <= InactivityLimit
          /\ (Ends(p, "refresh") /\ calls'[p].res.ok) =>
                /\ calls[p].pc = "refresh:setex"
                /\ Exists(redis', key)
                /\ redis'[key] = [val |-> calls[p].loc.session,
                                  exp |-> now + TOKEN_SESSION_TTL_SECONDS]
                /\ nextId' = nextId
                /\ \A k \in DOMAIN redis' \ {key} : k \in DOMAIN redis /\ redis'[k] = redis[k]
          /\ (Starts(p, "refresh") /\ Exists(redis, key)
                /\ now - Get(redis, key).lastActivityAt > InactivityLimit) =>
                /\ calls'[p].pc = "done"
                /\ ~calls'[p].res.ok
                /\ TokenRefusal(token, now) = None =>
                       calls'[p].res = AppError("Session expired due to inactivity. Please sign in again.", 401)
                /\ NothingChanges]_vars

\* A refresh has succeeded days after the sign-in.
C17_Witness ==
    \E p \in Callers :
        /\ Succeeded(p, "refresh")
        /\ LET key == getSessionKey(calls[p].arg.refreshToken.sessionId) IN
           /\ Exists(redis, key)
           /\ redis[key].val.lastActivityAt > redis[key].val.createdAt

\* A refresh was refused for inactivity.
C17_InactiveWitness ==
    \E p \in Callers :
        /\ Refused(p, "refresh", 401)
        /\ calls[p].res = AppError("Session expired due to inactivity. Please sign in again.", 401)

----------------------------------------------------------------------------
(* Password-reset initiation as the client sees it *)

\* forgotPasswordController is called with an identifier only: one that names
\* the account of the directory and one that names none.
ForgotIdentifiers == {"a@x.com", "z@x.com"}
ForgotRequests ==
    {[sessionToken |-> NoToken, identifier |-> x] : x \in ForgotIdentifiers}

\* What the client receives: the controller's 200 with its fixed message, or
\* the error handler's rendering of the AppError thrown.
Respond(res) ==
    IF res.ok
    THEN [status |-> 200, success |-> TRUE,
          message |-> "If an account exists with the provided identifier, a verification code has been sent."]
    ELSE [status |-> res.statusCode, success |-> FALSE, message |-> res.message]

InitiateNext ==
    \/ \E p \in Callers :
        \/ ResendStartWith(p, "forgot", MaxOtpIds, ForgotRequests)
        \/ ResendSession(p, "forgot", MaxOtpIds)
        \/ ResendFind(p, "forgot", MaxOtpIds)
        \/ ResendDel(p, "forgot") \/ ResendExec(p, "forgot")
        \/ Deliver(p)
    \/ DeleteUser
    \/ OtpTick
SpecInitiate == Init /\ [][InitiateNext]_vars

\* The response to the request of caller p, which has resolved no session and
\* is about to ask the directory.
DirectoryResponse(p) ==
    LET refusal == ResendUserRefusal("forgot",
                       FindByIdentifier(users, calls[p].arg.identifier))
    IN  IF refusal # None THEN Respond(refusal)
        ELSE Respond(Return([sessionToken |-> uuidv4]))

\* C18: two password-reset requests that are about to ask the directory in
\* the same state of store and directory receive the same response (status,
\* success flag, message), whether or not their identifiers name a user.
C18_InitiationHidesExistence ==
    \A p, q \in Callers :
        (/\ calls[p].op = "forgotPassword" /\ calls[p].pc = "resend:find"
         /\ calls[q].op = "forgotPassword" /\ calls[q].pc = "resend:find")
            => DirectoryResponse(p) = DirectoryResponse(q)

----------------------------------------------------------------------------
(* createRateLimiter (rateLimit.middleware.ts), as passwordResetRateLimiter *)

LIMIT_WINDOW_SECONDS == 3600
LIMIT_MAX == 3
LIMIT_MESSAGE == "Too many password reset attempts. Please try again in 1 hour."

\* `rateLimit:${keyGenerator(req)}`
getRateLimitKey(k) == <<"rateLimit", k>>
LimitKeys == {"10.0.0.1:passwordReset:a@x.com", "10.0.0.2:passwordReset"}

\* The module's redisClient when the request arrives: null before
\* connectRedis, the connection after it.
Clients == {None, [connection |-> "ioredis"]}

\* The command of the request that the store fails to answer, if any.
Outages == {"none", "incr", "pexpire", "pttl"}

\* getRedisClient(): the client, or the error thrown when there is none.
getRedisClient(client) ==
    IF client = None
    THEN AppError("Service temporarily unavailable. Please try again later.", 503)
    ELSE Return(client)

\* next() and next(error)
Permitted == Return([next |-> TRUE])
Rejected(error) == error

\* A catch block that lets every request through
CaughtAnything(error) == Permitted

\* The catch block: an AppError is passed on, any other error lets the request
\* through.
Caught(error) == IF error.error = "AppError" THEN Rejected(error) ELSE Permitted

\* The counter of a key is kept below this bound.
MaxCount == 4
MaxLimitTicks == 1

\* getRedisClient and INCR.
LimitIncr(p) ==
    \E k \in LimitKeys, client \in Clients, outage \in Outages :
        LET arg == [key |-> k, client |-> client, outage |-> outage]
            key == getRateLimitKey(k)
            got == getRedisClient(client)
            count == IF Exists(redis, key) THEN redis[key].val + 1 ELSE 1
        IN  /\ IsIdle(p)
            /\ IF ~got.ok
               THEN Finish(p, "rateLimit", arg, Caught(got)) /\ UNCHANGED redis
               ELSE IF outage = "incr"
               THEN /\ Finish(p, "rateLimit", arg, Caught(Thrown("Error")))
                    /\ UNCHANGED redis
               ELSE /\ count <= MaxCount
                    /\ redis' = Put(redis, key,
                                    [val |-> count,
                                     exp |-> IF Exists(redis, key) THEN redis[key].exp
                                             ELSE NoExpiry])
                    /\ Await(p, "rateLimit", arg,
                             IF count = 1 THEN "limit:pexpire" ELSE "limit:pttl",
                             [count |-> count])
            /\ UNCHANGED <<users, now, ticks, nextId, issued, log, linked, origin>>

\* PEXPIRE on the first request of a window.
LimitPexpire(p) ==
    /\ At(p, "limit:pexpire")
    /\ LET arg == calls[p].arg
           key == getRateLimitKey(arg.key)
       IN  IF arg.outage = "pexpire"
           THEN /\ Finish(p, "rateLimit", arg, Caught(Thrown("Error")))
                /\ UNCHANGED redis
           ELSE /\ redis' = IF Exists(redis, key)
                            THEN Put(redis, key, [val |-> redis[key].val,
                                                  exp |-> now + LIMIT_WINDOW_SECONDS])
                            ELSE redis
                /\ Await(p, "rateLimit", arg, "limit:pttl", calls[p].loc)
    /\ UNCHANGED <<users, now, ticks, nextId, issued, log, linked, origin>>

\* PTTL, the headers and the comparison with max.
LimitPttl(p) ==
    /\ At(p, "limit:pttl")
    /\ LET arg == calls[p].arg
       IN  IF arg.outage = "pttl"
           THEN Finish(p, "rateLimit", arg, Caught(Thrown("Error")))
           ELSE IF calls[p].loc.count > LIMIT_MAX
           THEN Finish(p, "rateLimit", arg, Caught(AppError(LIMIT_MESSAGE, 429)))
           ELSE Finish(p, "rateLimit", arg, Permitted)
    /\ UNCHANGED <<redis, users, now, ticks, nextId, issued, log, linked, origin>>

LimitClockSteps == {LIMIT_WINDOW_SECONDS}
LimitTick == \E d \in LimitClockSteps : Elapse(d, MaxLimitTicks)

LimiterNext ==
    \/ \E p \in Callers :
        \/ LimitIncr(p) \/ LimitPexpire(p) \/ LimitPttl(p)
        \/ Deliver(p)
    \/ LimitTick
SpecLimiter == Init /\ [][LimiterNext]_vars

\* The step that ends the request of p met a store that was not available:
\* no client, or the command of this step failed.
StoreUnavailable(p) ==
    LET arg == calls'[p].arg IN
    \/ arg.client = None
    \/ arg.outage = "incr" /\ calls[p].pc = "idle"
    \/ arg.outage = "pexpire" /\ calls[p].pc = "limit:pexpire"
    \/ arg.outage = "pttl" /\ calls[p].pc = "limit:pttl"

\* C19: a request that meets an unavailable store (the client is not
\* initialised, or INCR, PEXPIRE or PTTL fails) is permitted by the limiter,
\* never rejected.
C19_LimiterFailsOpen ==
    [][\A p \in Callers :
          (Ends(p, "rateLimit") /\ StoreUnavailable(p)) => calls'[p].res = Permitted]_vars

\* A request whose INCR, PEXPIRE or PTTL fails on an initialised client is
\* permitted.
C19_CommandFailureFailsOpen ==
    [][\A p \in Callers :
          (Ends(p, "rateLimit") /\ StoreUnavailable(p) /\ calls'[p].arg.client # None)
              => calls'[p].res = Permitted]_vars

\* A request beyond the maximum of its window has been rejected with 429.
LimitExceeded ==
    \E p \in Callers :
        Refused(p, "rateLimit", 429) /\ calls[p].res.message = LIMIT_MESSAGE

----------------------------------------------------------------------------
(* What the stored OTP records hold *)

\* The session records of the two OTP flows that are in the store
StoredOtpSessions ==
    {redis[k].val : k \in {key \in DOMAIN redis :
                              /\ key[1] = "auth:session"
                              /\ redis[key].val.type \in {SIGNUP_VERIFY, RESET_PASSWORD}}}

\* C20: no stored SIGNUP_VERIFY or RESET_PASSWORD record holds the code in
\* plain text; it holds the keyed hash only.
C20_NoPlaintextOtpStored ==
    \A session \in StoredOtpSessions :
        /\ "otpHash" \in DOMAIN session
        /\ "otp" \notin DOMAIN session

----------------------------------------------------------------------------
(* hashOtp and verifyOtp on their own (otp.util.ts) *)

\* The codes verifyOtp is called with
UtilCodes == {"100000", "123456", "654321", "999998", "999999", "000000"}

\* What Buffer.from(hashedOtp, "hex") reads from strings that are no digest of
\* hashOtp: nothing from a string that does not start with hex digits, the
\* first half of a digest that was cut, 32 bytes of another origin.
NotHex == [hmac |-> <<"not hex">>, bytes |-> 0]
CutDigest(otp) == [hmac |-> <<OTP.SECRET, otp>>, bytes |-> 16]
OtherDigest == [hmac |-> <<"another secret", "123456">>, bytes |-> 32]

\* The stored hashes verifyOtp is called with
UtilHashes ==
    {hashOtp(c) : c \in UtilCodes}
        \cup {EmptyHex, NotHex, OtherDigest} \cup {CutDigest(c) : c \in {"123456"}}

\* One call of verifyOtp: the boolean returned, or the error thrown.
VerifyOtpCall(p) ==
    \E otp \in UtilCodes, hashedOtp \in UtilHashes :
        LET isValidOtp == verifyOtp(otp, hashedOtp) IN
        /\ IsIdle(p)
        /\ Finish(p, "verifyOtp", [otp |-> otp, hashedOtp |-> hashedOtp],
                  IF "throws" \in DOMAIN isValidOtp THEN Thrown(isValidOtp.throws)
                  ELSE Return(isValidOtp.value))
        /\ UNCHANGED <<redis, users, now, ticks, nextId, issued, log, linked, origin>>

OtpUtilNext == \E p \in Callers : VerifyOtpCall(p) \/ Deliver(p)
SpecOtpUtil == Init /\ [][OtpUtilNext]_vars

\* C21: verifyOtp(c, hashOtp(d)) returns true when c = d and false when c
\* differs from d, for all codes c and d of the bounded set.
C21_VerifyMatchesHash ==
    \A p \in Callers :
        (calls[p].pc = "done" /\ calls[p].op = "verifyOtp") =>
            \A d \in UtilCodes :
                calls[p].arg.hashedOtp = hashOtp(d) =>
                    calls[p].res = Return(calls[p].arg.otp = d)

\* verifyOtp has returned false for the hash of another code.
C21_Witness ==
    \E p \in Callers :
        /\ calls[p].pc = "done" /\ calls[p].op = "verifyOtp"
        /\ calls[p].arg.hashedOtp = hashOtp("654321")
        /\ calls[p].arg.otp = "123456"
        /\ calls[p].res = Return(FALSE)

\* C22: verifyOtp returns a boolean for every input and never raises; for a
\* stored hash that is empty, of another length or no digest of hashOtp the
\* boolean is false.
C22_VerifyNeverThrows ==
    \A p \in Callers :
        (calls[p].pc = "done" /\ calls[p].op = "verifyOtp") =>
            /\ calls[p].res.ok
            /\ calls[p].res.data \in BOOLEAN
            /\ calls[p].arg.hashedOtp \notin {hashOtp(c) : c \in UtilCodes} =>
                   calls[p].res.data = FALSE

----------------------------------------------------------------------------
(* generateOtp (otp.util.ts) *)

OTP_LENGTH == 6

RECURSIVE Pow10(_)
Pow10(n) == IF n = 0 THEN 1 ELSE 10 * Pow10(n - 1)

\* crypto.randomInt(min, max): the integers n with min <= n < max
randomInt(min, max) == {n \in min..max : n < max}

\* Number.prototype.toString: the decimal digits, most significant first
RECURSIVE toString(_)
toString(n) == IF n < 10 THEN <<n>> ELSE Append(toString(n \div 10), n % 10)

\* The value of a string of decimal digits
RECURSIVE parseInt(_)
parseInt(digits) ==
    IF Len(digits) = 0 THEN 0
    ELSE 10 * parseInt(SubSeq(digits, 1, Len(digits) - 1)) + digits[Len(digits)]

\* The integers generateOtp draws from
GenerateOtpRange == randomInt(Pow10(OTP_LENGTH - 1), Pow10(OTP_LENGTH) - 1)

\* One call of generateOtp.
GenerateOtpCall(p) ==
    /\ IsIdle(p)
    /\ \E n \in GenerateOtpRange :
          Finish(p, "generateOtp", None, Return(toString(n)))
    /\ UNCHANGED <<redis, users, now, ticks, nextId, issued, log, linked, origin>>

GenerateNext == \E p \in Sequential : GenerateOtpCall(p) \/ Deliver(p)
SpecGenerate == Init /\ [][GenerateNext]_vars

\* C23: every value generateOtp returns is a string of OTP_LENGTH decimal
\* digits whose value lies in [10^(L-1), 10^L - 1], and every integer of that
\* closed range, 10^L - 1 included, is one generateOtp can draw.
C23_GenerateCoversClosedRange ==
    /\ \A p \in Callers :
          (calls[p].pc = "done" /\ calls[p].op = "generateOtp") =>
              /\ Len(calls[p].res.data) = OTP_LENGTH
              /\ parseInt(calls[p].res.data) >= Pow10(OTP_LENGTH - 1)
              /\ parseInt(calls[p].res.data) <= Pow10(OTP_LENGTH) - 1
    /\ Pow10(OTP_LENGTH - 1) \in GenerateOtpRange
    /\ (Pow10(OTP_LENGTH) - 1) \in GenerateOtpRange

\* Every value returned has OTP_LENGTH digits and lies in the half-open range
\* [10^(L-1), 10^L - 1).
GeneratedWithinRange ==
    \A p \in Callers :
        (calls[p].pc = "done" /\ calls[p].op = "generateOtp") =>
            /\ Len(calls[p].res.data) = OTP_LENGTH
            /\ parseInt(calls[p].res.data) >= Pow10(OTP_LENGTH - 1)
            /\ parseInt(calls[p].res.data) < Pow10(OTP_LENGTH) - 1

\* generateOtp has returned the largest value it can draw.
GeneratedLargest ==
    \E p \in Callers :
        /\ calls[p].pc = "done" /\ calls[p].op = "generateOtp"
        /\ calls[p].res.data = <<9, 9, 9, 9, 9, 8>>

----------------------------------------------------------------------------
(* Refresh and rotate called with tokens of every origin *)

\* The access token issued together with a refresh token
AccessTokenOf(token) ==
    generateAccessToken([sub |-> token.sub, sessionId |-> token.sessionId,
                         type |-> "ACCESS"],
                        token.exp - TOKEN_EXPIRY.REFRESH.seconds)

\* A token signed with a key the server does not hold, and a token signed
\* with the refresh key over a payload of type ACCESS
Forged(token) == [token EXCEPT !.key = "forged-secret"]
Retyped(token) == [token EXCEPT !.type = "ACCESS"]

\* What a client can present where a refresh token is expected
PresentedTokens ==
    issued \cup {AccessTokenOf(t) : t \in issued}
           \cup {Forged(t) : t \in issued} \cup {Retyped(t) : t \in issued}

MaxTokenIds == 2
TokenNext ==
    \/ \E p \in Sequential :
        \/ SigninFind(p) \/ SigninExec(p)
        \/ RefreshGetWith(p, PresentedTokens) \/ RefreshSetex(p)
        \/ RotateGetWith(p, PresentedTokens, MaxTokenIds) \/ RotateExec(p)
        \/ Deliver(p)
    \/ LongTick
SpecToken == Init /\ [][TokenNext]_vars

TokenOps == {"refresh", "rotate"}

\* C24: refresh and rotate refuse, without changing anything, every token
\* minted by generateAccessToken, and go on only with a token signed with the
\* refresh key whose payload type is REFRESH.
C24_AccessTokenNeverAccepted ==
    [][\A p \in Callers : \A op \in TokenOps :
          Starts(p, op) =>
              LET token == calls'[p].arg.refreshToken IN
              /\ token.key = JWT_ACCESS_SECRET =>
                    /\ calls'[p].pc = "done"
                    /\ ~calls'[p].res.ok
                    /\ NothingChanges
              /\ calls'[p].pc # "done" =>
                    /\ token.key = JWT_REFRESH_SECRET
                    /\ token.type = "REFRESH"]_vars

\* An access token presented to rotate has been refused, while a session of
\* its user is stored.
C24_Witness ==
    \E p \in Callers :
        /\ calls[p].pc = "done" /\ calls[p].op = "rotate"
        /\ ~calls[p].res.ok
        /\ calls[p].arg.refreshToken.key = JWT_ACCESS_SECRET
        /\ Exists(redis, getSessionKey(calls[p].arg.refreshToken.sessionId))

\* C25: refresh and rotate fail with three different kinds of error for an
\* expired refresh token, for a token that is malformed or wrongly signed, and
\* for an access token presented as a refresh token.
C25_ThreeTokenErrorKinds ==
    [][\A p \in Callers : \A op \in TokenOps :
          (Starts(p, op) /\ calls'[p].pc = "done" /\ ~calls'[p].res.ok) =>
              LET token == calls'[p].arg.refreshToken
                  kind == calls'[p].res.error
              IN
              /\ (token \in issued /\ now >= token.exp) => kind = "TokenExpiredError"
              /\ token.key = "forged-secret" => kind = "JsonWebTokenError"
              /\ token.key = JWT_ACCESS_SECRET =>
                     kind \notin {"TokenExpiredError", "JsonWebTokenError"}]_vars

\* An expired refresh token has been refused as expired.
ExpiredTokenRefused ==
    \E p \in Callers :
        /\ calls[p].pc = "done" /\ calls[p].op \in TokenOps
        /\ calls[p].res = Thrown("TokenExpiredError")

----------------------------------------------------------------------------
(* The resend transition as other requests see it *)

\* The resend of caller p has removed the record it resolved, has not stored
\* its new record yet, and an index entry still names the removed id.
HalfApplied(p) ==
    /\ calls[p].op \in ResendOps
    /\ calls[p].pc = "resend:exec"
    /\ calls[p].loc.sessionId # NoToken
    /\ ~Exists(redis, getSessionKey(calls[p].loc.sessionId))
    /\ ~Exists(redis, getSessionKey(calls[p].loc.newSessionId))
    /\ \E x \in calls[p].loc.identifiers :
          /\ Exists(redis, IndexKey(ResendFlowOf(calls[p].op), x))
          /\ Get(redis, IndexKey(ResendFlowOf(calls[p].op), x)) = calls[p].loc.sessionId

\* C26: a resend is applied as one unit: in no state that another request can
\* read is the previous record deleted while the index still names its id and
\* the new record is not stored.
C26_ResendIsIndivisible ==
    \A p \in Callers :
        ~(HalfApplied(p) /\ \E q \in Callers \ {p} : IsIdle(q))

----------------------------------------------------------------------------
(* signupValidateSessionService and validateForgotPasswordSessionService *)

ValidateOp(flow) ==
    IF flow = "signup" THEN "signupValidateSession"
    ELSE "validateForgotPasswordSession"

\* The checks without the one on the code's expiry
ValidateRefusalNoExpiry(flow, sessionData, t) ==
    IF sessionData = None THEN
        AppError(IF flow = "signup"
                 THEN "Verification session has expired. Please request a new verification code."
                 ELSE "Password reset session has expired. Please request a new code.", 410)
    ELSE IF sessionData.type # FlowType(flow) THEN
        AppError(IF flow = "signup" THEN "Invalid verification session token."
                 ELSE "Invalid password reset session.", 400)
    ELSE None

\* The checks of the two services on the record they read at time t: the
\* error thrown, or None.
ValidateRefusal(flow, sessionData, t) ==
    IF sessionData = None THEN
        AppError(IF flow = "signup"
                 THEN "Verification session has expired. Please request a new verification code."
                 ELSE "Password reset session has expired. Please request a new code.", 410)
    ELSE IF sessionData.type # FlowType(flow) THEN
        AppError(IF flow = "signup" THEN "Invalid verification session token."
                 ELSE "Invalid password reset session.", 400)
    ELSE IF \/ "otpExpiresAt" \notin DOMAIN sessionData
            \/ sessionData.otpExpiresAt = 0
            \/ t > sessionData.otpExpiresAt THEN
        AppError(IF flow = "signup"
                 THEN "Verification session token is invalid. Please request a new verification code."
                 ELSE "Password reset code has expired. Please request a new one.", 410)
    ELSE None

\* cleanObject({ email, phoneNumber, username }): the first identifier set
filteredData(session) ==
    IF session.email # Undefined THEN [email |-> session.email]
    ELSE IF session.phoneNumber # Undefined THEN [phoneNumber |-> session.phoneNumber]
    ELSE IF session.username # Undefined THEN [username |-> session.username]
    ELSE <<>>

ValidateSession(p, flow) ==
    \E sessionToken \in MintedIds :
        LET input == [sessionToken |-> sessionToken]
            sessionData == Get(redis, getSessionKey(sessionToken))
            refusal == ValidateRefusal(flow, sessionData, now)
        IN  /\ IsIdle(p)
            /\ Finish(p, ValidateOp(flow), input,
                      IF refusal # None THEN refusal
                      ELSE Return(filteredData(sessionData)))
            /\ UNCHANGED <<redis, users, now, ticks, nextId, issued, log, linked, origin>>

\* Signup, forgot-password, validate, verify and reset, one call after the
\* other, while the window of the code runs out.
MaxExpiryIds == 2
ExpiryNext ==
    \/ \E p \in Sequential :
        \/ SignupFind(p) \/ SignupCreate(p, MaxExpiryIds) \/ SignupExec(p)
        \/ ResendStart(p, "forgot", MaxExpiryIds)
        \/ ResendSession(p, "forgot", MaxExpiryIds)
        \/ ResendFind(p, "forgot", MaxExpiryIds)
        \/ ResendDel(p, "forgot") \/ ResendExec(p, "forgot")
        \/ \E flow \in {"signup", "forgot"} : ValidateSession(p, flow)
        \/ VerifyGet(p) \/ VerifyUpdate(p) \/ VerifyExec(p)
        \/ ResetGet(p) \/ ResetUpdate(p) \/ ResetExec(p)
        \/ Deliver(p)
    \/ ResendTick
SpecExpiry == Init /\ [][ExpiryNext]_vars

\* C27: a verify call that starts after otpExpiresAt of the record under its
\* token ends at once without success, also when the record is still stored
\* and the code matches.
C27_ExpiredCodeNotVerified ==
    [][\A p \in Callers : \A op \in VerifyOps :
          (/\ Starts(p, op)
           /\ Exists(redis, getSessionKey(calls'[p].arg.sessionToken))
           /\ now > Get(redis, getSessionKey(calls'[p].arg.sessionToken)).otpExpiresAt)
              => (calls'[p].pc = "done" /\ ~calls'[p].res.ok)]_vars

ValidateOps == {"signupValidateSession", "validateForgotPasswordSession"}
ValidateFlowOf(op) == IF op = "signupValidateSession" THEN "signup" ELSE "forgot"

\* C28: a validate-session call succeeds only if a record is stored under the
\* token, its type is the flow's and the time is not past otpExpiresAt;
\* otherwise it fails with 410 (no record, or expired) or 400 (wrong type);
\* the call changes nothing in any case.
C28_ValidateSession ==
    [][\A p \in Callers : \A op \in ValidateOps :
          Starts(p, op) =>
              LET key == getSessionKey(calls'[p].arg.sessionToken)
                  res == calls'[p].res
                  typed == Exists(redis, key)
                               /\ Get(redis, key).type = FlowType(ValidateFlowOf(op))
              IN
              /\ calls'[p].pc = "done"
              /\ NothingChanges
              /\ ~Exists(redis, key) => (~res.ok /\ res.statusCode = 410)
              /\ (Exists(redis, key) /\ ~typed) => (~res.ok /\ res.statusCode = 400)
              /\ (typed /\ now > Get(redis, key).otpExpiresAt) =>
                     (~res.ok /\ res.statusCode = 410)
              /\ (typed /\ now <= Get(redis, key).otpExpiresAt) =>
                     res = Return(filteredData(Get(redis, key)))]_vars

\* A validate-session call has failed with 410 for a record that is stored
\* and of the flow's type: the time is past otpExpiresAt.
C28_Witness ==
    \E p \in Callers : \E op \in ValidateOps :
        LET key == getSessionKey(calls[p].arg.sessionToken) IN
        /\ Refused(p, op, 410)
        /\ Exists(redis, key)
        /\ Get(redis, key).type = FlowType(ValidateFlowOf(op))

\* A validate-session call has succeeded, and one has failed with 400.
ValidateSucceeded == \E p \in Callers : \E op \in ValidateOps : Succeeded(p, op)
ValidateWrongType == \E p \in Callers : \E op \in ValidateOps : Refused(p, op, 400)


----------------------------------------------------------------------------
(* Verify-success against a resend that is under way *)

\* The SIGNUP_VERIFY records in the store that belong to user u
StoredSignupSessionsOf(store, u) ==
    {k \in DOMAIN store :
        /\ k[1] = "auth:session"
        /\ store[k].val.type = SIGNUP_VERIFY
        /\ store[k].val.userId = u}

\* A resend call whose batch is still to be applied although a verify of the
\* session it read has succeeded since.
OvertakenResend(p) ==
    /\ At(p, "resend:exec")
    /\ calls[p].op = FlowOp("signup")
    /\ <<"signupVerifyOtp", calls[p].loc.sessionId>> \in log

\* C29: once signupVerifyOtpService has succeeded for a user, no SIGNUP_VERIFY
\* record of that user is stored and no signup index entry of the user
\* resolves to a stored session, also after a resend that read the session
\* before the verify's cleanup has applied its own batch.
C29_VerifySuccessIsTerminal ==
    [][\A p \in Callers :
          (OvertakenResend(p) /\ calls'[p].pc = "done")
          => /\ StoredSignupSessionsOf(redis', calls[p].loc.session.userId) = {}
             /\ \A x \in calls[p].loc.identifiers :
                    ~Resolves(redis', "signup", x)]_vars

----------------------------------------------------------------------------
(* The session set of a user against the stored sessions *)

\* The ids of the SIGNIN records in the store, with the user each belongs to
StoredSigninSessions ==
    {<<k[2], redis[k].val.userId>> :
        k \in {key \in DOMAIN redis :
                  /\ key[1] = "auth:session"
                  /\ redis[key].val.type = SIGNIN}}

\* C30: in every state the id of every stored SIGNIN record of user u is a
\* member of u's session set, so that logout-all reaches it.
C30_StoredSessionInUserSet ==
    \A pair \in StoredSigninSessions :
        pair[1] \in SMembers(redis, getUserSessionsKey(pair[2]))

----------------------------------------------------------------------------
(* The three flow families over one store *)

\* Signup, forgot-password, sign-in and the operations on their sessions, one
\* call after the other; every operation may be handed any id minted so far.
MaxFamilyIds == 3
FamilyNext ==
    \E p \in Sequential :
        \/ SignupFind(p) \/ SignupCreate(p, MaxFamilyIds) \/ SignupExec(p)
        \/ \E flow \in {"signup", "forgot"} :
            \/ ResendStart(p, flow, MaxFamilyIds)
            \/ ResendSession(p, flow, MaxFamilyIds)
            \/ ResendFind(p, flow, MaxFamilyIds)
            \/ ResendDel(p, flow) \/ ResendExec(p, flow)
            \/ ValidateSession(p, flow)
        \/ VerifyGet(p) \/ VerifyUpdate(p) \/ VerifyExec(p)
        \/ ResetGet(p) \/ ResetUpdate(p) \/ ResetExec(p)
        \/ SigninFind(p) \/ SigninExec(p)
        \/ RotateGetWith(p, issued, MaxFamilyIds) \/ RotateExec(p)
        \/ Deliver(p)
SpecFamily == Init /\ [][FamilyNext]_vars

\* The operations that take a session token, and the flow each belongs to
FamilyOps == ResendOps \cup VerifyOps \cup ValidateOps
FamilyFlowOf(op) ==
    IF op \in {"signupResend", "signupVerifyOtp", "signupValidateSession"}
    THEN "signup" ELSE "forgot"

\* Caller p starts op with the token of a stored record of another family.
GivenOtherFamily(p, op) ==
    /\ Starts(p, op)
    /\ calls'[p].arg.sessionToken # NoToken
    /\ Exists(redis, getSessionKey(calls'[p].arg.sessionToken))
    /\ Get(redis, getSessionKey(calls'[p].arg.sessionToken)).type
           # FlowType(FamilyFlowOf(op))

\* Every index entry of the store that names a stored record names a record
\* of the family of its namespace.
IndexKeepsFamily(store) ==
    \A k \in DOMAIN store :
        (k[1] \in {"auth:signup", "auth:forgot"}
            /\ Exists(store, getSessionKey(store[k].val)))
        => store[getSessionKey(store[k].val)].val.type
               = IF k[1] = "auth:signup" THEN SIGNUP_VERIFY ELSE RESET_PASSWORD

ResendKeptFamily ==
    \E p \in Callers : \E op \in ResendOps :
        /\ Succeeded(p, op)
        /\ calls[p].loc.sessionId # NoToken
        /\ Get(redis, getSessionKey(calls[p].loc.newSessionId)).type
               = FlowType(ResendFlowOf(op))

----------------------------------------------------------------------------
(* The stored OTP record between its creation and its end *)

\* Either flow on its own, one call after the other, while the window of the
\* code runs out: a run is of the signup family (signup, resend, verify) or of
\* the forgot-password family (forgot-password and its resends).
MaxRecordIds == 5
SignupRun == nextId = 1 \/ DOMAIN users # {"u1"}
ForgotRun == DOMAIN users = {"u1"}
RecordNext ==
    \/ \E p \in Sequential :
        \/ /\ SignupRun
           /\ \/ SignupFind(p) \/ SignupCreate(p, MaxRecordIds) \/ SignupExec(p)
              \/ ResendStart(p, "signup", MaxRecordIds)
              \/ ResendSession(p, "signup", MaxRecordIds)
              \/ ResendFind(p, "signup", MaxRecordIds)
              \/ ResendDel(p, "signup") \/ ResendExec(p, "signup")
              \/ VerifyGet(p) \/ VerifyUpdate(p) \/ VerifyExec(p)
        \/ /\ ForgotRun
           /\ \/ ResendStart(p, "forgot", MaxRecordIds)
              \/ ResendSession(p, "forgot", MaxRecordIds)
              \/ ResendFind(p, "forgot", MaxRecordIds)
              \/ ResendDel(p, "forgot") \/ ResendExec(p, "forgot")
        \/ Deliver(p)
    \/ ResendTick
SpecRecord == Init /\ [][RecordNext]_vars

\* The keys of the OTP session records in a store
OtpSessionKeys(store) ==
    {k \in DOMAIN store :
        /\ k[1] = "auth:session"
        /\ store[k].val.type \in {SIGNUP_VERIFY, RESET_PASSWORD}}

\* The session ids a record has ever been stored under
EverStored == {link[2] : link \in linked}

----------------------------------------------------------------------------
(* A signup resend that falls back to the directory *)

\* The identifiers a resend is called with: those of the account in their
\* spellings, and one no account has.
FallbackIdentifiers == {"a@x.com", "A@x.com", "alice", "5550001", "nobody@x.com"}
FallbackInputs ==
    {[sessionToken |-> NoToken, identifier |-> x] : x \in FallbackIdentifiers}

\* Signup resends by identifier, one after the other, over the accounts the
\* directory can hold.
MaxFallbackIds == 3
FallbackNext ==
    \E p \in Sequential :
        \/ ResendStartWith(p, "signup", MaxFallbackIds, FallbackInputs)
        \/ ResendSession(p, "signup", MaxFallbackIds)
        \/ ResendFind(p, "signup", MaxFallbackIds)
        \/ ResendDel(p, "signup") \/ ResendExec(p, "signup")
        \/ Deliver(p)
SpecFallback == InitSignin /\ [][FallbackNext]_vars

\* The account may be sent a verification code.
Verifiable(user) ==
    /\ user.status = STATUS_ACTIVE /\ user.statusMeta = None
    /\ ~user.emailIsVerified

\* C33: a signup resend asks the directory only when it was given no token
\* and its identifier resolves no stored session; it then builds a
\* SIGNUP_VERIFY session only for a user the directory has, who is active and
\* whose email is not verified, and is otherwise refused with 404, 403 or 409
\* and writes nothing.
C33_FallbackToDirectory ==
    [][\A p \in Callers :
          /\ (calls'[p].op = "signupResend" /\ calls[p].pc # "resend:find"
                 /\ calls'[p].pc = "resend:find") =>
                 /\ calls'[p].arg.sessionToken = NoToken
                 /\ ~Resolves(redis, "signup", calls'[p].arg.identifier)
          /\ (calls[p].op = "signupResend" /\ calls[p].pc = "resend:find"
                 /\ calls'[p].pc # "resend:find") =>
                 LET found == FindByIdentifier(users, calls[p].arg.identifier) IN
                 IF found # {} /\ \A id \in found : Verifiable(users[id])
                 THEN /\ calls'[p].pc = "resend:exec"
                      /\ calls'[p].loc.session.type = SIGNUP_VERIFY
                      /\ calls'[p].loc.session.userId \in found
                 ELSE /\ calls'[p].pc = "done"
                      /\ calls'[p].res
                             = IF found = {}
                               THEN AppError("No account found with the provided identifier.", 404)
                               ELSE IF \E id \in found :
                                          \/ users[id].status # STATUS_ACTIVE
                                          \/ users[id].statusMeta # None
                               THEN AppError("Your account is not active. Please contact support.", 403)
                               ELSE AppError("This account is already verified.", 409)
                      /\ NothingChanges
          /\ (Ends(p, "signupResend") /\ calls'[p].res.ok
                 /\ calls[p].loc.sessionId = NoToken) =>
                 /\ calls[p].loc.session.userId \in DOMAIN users
                 /\ Verifiable(users[calls[p].loc.session.userId])
                 /\ Get(redis', getSessionKey(calls[p].loc.newSessionId))
                        = calls[p].loc.session]_vars

\* A resend that resolved no session has stored a session for the user the
\* directory found.
C33_Witness ==
    \E p \in Callers :
        /\ Succeeded(p, "signupResend")
        /\ calls[p].loc.sessionId = NoToken
        /\ Exists(redis, getSessionKey(calls[p].loc.newSessionId))

\* A resend that resolved no session has been refused for each of the three
\* reasons.
FallbackNotFound ==
    \E p \in Callers : Refused(p, "signupResend", 404) /\ redis = <<>>
FallbackForbidden ==
    \E p \in Callers : Refused(p, "signupResend", 403) /\ redis = <<>>
FallbackConflict ==
    \E p \in Callers : Refused(p, "signupResend", 409) /\ redis = <<>>

----------------------------------------------------------------------------
(* The window of the rate limiter *)

\* The store answers every command of the request of caller p.
StoreAnswers(p) ==
    calls'[p].arg.client # None /\ calls'[p].arg.outage = "none"

\* The counter keys of a store
CounterKeys(store) == {k \in DOMAIN store : k[1] = "rateLimit"}

\* C34: the requests of one key are numbered 1, 2, 3, ... within a window by
\* an atomic increment, also when they overlap; a request the store answers
\* is permitted when its number is at most max and rejected with 429 when it
\* is above; no request moves the end of a window once it is set, and the
\* count only restarts when the key has expired.
C34_FixedWindow ==
    [][/\ \A p \in Callers :
              /\ (Starts(p, "rateLimit") /\ calls'[p].pc # "done") =>
                     LET key == getRateLimitKey(calls'[p].arg.key) IN
                     /\ calls'[p].loc.count
                            = IF Exists(redis, key) THEN redis[key].val + 1 ELSE 1
                     /\ redis'[key].val = calls'[p].loc.count
              /\ (Ends(p, "rateLimit") /\ StoreAnswers(p)) =>
                     calls'[p].res
                         = IF calls[p].loc.count <= LIMIT_MAX THEN Permitted
                           ELSE AppError(LIMIT_MESSAGE, 429)
       /\ \A k \in CounterKeys(redis) \cap CounterKeys(redis') :
              /\ redis'[k].val >= redis[k].val
              /\ redis[k].exp # NoExpiry => redis'[k].exp = redis[k].exp]_vars

\* The request after the last one permitted in a window has been rejected
\* with 429 although the store answered, the window still running.
C34_Witness ==
    \E p \in Callers :
        /\ Refused(p, "rateLimit", 429)
        /\ calls[p].arg.outage = "none"
        /\ calls[p].loc.count = LIMIT_MAX + 1
        /\ Exists(redis, getRateLimitKey(calls[p].arg.key))
        /\ redis[getRateLimitKey(calls[p].arg.key)].exp > now

\* A request has been permitted as the first of a new window after the key
\* of a used-up window expired.
WindowRestarted ==
    \E p \in Callers :
        /\ Succeeded(p, "rateLimit")
        /\ calls[p].arg.outage = "none" /\ calls[p].arg.client # None
        /\ calls[p].loc.count = 1
        /\ now > LIMIT_WINDOW_SECONDS

----------------------------------------------------------------------------
(* signupService against the accounts the directory has *)

\* Requests for a new account, and requests whose email, username or phone
\* number the seeded account has.
ConflictInputs ==
    {[email |-> "b@x.com", username |-> "bob", phoneNumber |-> Undefined,
      password |-> "Passw0rd!b"],
     [email |-> "a@x.com", username |-> "carol", phoneNumber |-> Undefined,
      password |-> "Passw0rd!c"],
     [email |-> "c@x.com", username |-> "alice", phoneNumber |-> Undefined,
      password |-> "Passw0rd!c"],
     [email |-> "d@x.com", username |-> Undefined, phoneNumber |-> "5550001",
      password |-> "Passw0rd!d"],
     [email |-> "e@x.com", username |-> "bob", phoneNumber |-> Undefined,
      password |-> "Passw0rd!e"]}

\* Signups that overlap
MaxConflictIds == 3
ConflictNext ==
    \E p \in Callers :
        \/ SignupFindWith(p, ConflictInputs)
        \/ SignupCreate(p, MaxConflictIds) \/ SignupExec(p)
        \/ Deliver(p)
SpecConflict == Init /\ [][ConflictNext]_vars

\* A user of the directory has the email, the username or the phone number
\* of the request.
AlreadyTaken(input) ==
    \E id \in DOMAIN users :
        /\ ~users[id].deleted
        /\ \/ users[id].email = input.email
           \/ input.username # Undefined /\ users[id].username = input.username
           \/ input.phoneNumber # Undefined
                  /\ users[id].phoneNumber = input.phoneNumber

\* C35: a signup called with an email, a username or a phone number that a
\* user of the directory has ends at once with 409 and creates no user,
\* stores no session and no index entry, and draws no id.
C35_DuplicateSignupConflict ==
    [][\A p \in Callers :
          (Starts(p, "signup") /\ AlreadyTaken(calls'[p].arg))
          => /\ calls'[p].pc = "done"
             /\ calls'[p].res
                    = AppError("An account already exists with the provided credentials.",
                               409)
             /\ NothingChanges
             /\ linked' = linked]_vars

\* A signup has been refused with 409 for the username of a user an earlier
\* signup created.
C35_Witness ==
    \E p \in Callers :
        /\ Refused(p, "signup", 409)
        /\ calls[p].arg.email = "e@x.com"
        /\ \E id \in DOMAIN users :
              users[id].username = "bob" /\ users[id].email = "b@x.com"

\* The same for the username and for the phone number of the seeded account.
ConflictByUsername ==
    \E p \in Callers : Refused(p, "signup", 409) /\ calls[p].arg.username = "alice"
ConflictByPhone ==
    \E p \in Callers : Refused(p, "signup", 409) /\ calls[p].arg.phoneNumber = "5550001"

----------------------------------------------------------------------------
(* The session an identifier resolves *)

\* The ids of the stored sessions of a flow that belong to user u
ActiveSessionsOf(store, flow, u) ==
    {k[2] : k \in {key \in DOMAIN store :
                      /\ key[1] = "auth:session"
                      /\ store[key].val.type = FlowType(flow)
                      /\ store[key].val.userId = u}}

\* C36: a resend called with an identifier that the directory lookup maps to
\* a user who has a stored session of the flow resolves that session (and is
\* then subject to its resend count); it does not go on to the directory to
\* build a second session for the user.
C36_IdentifierResolvesActiveSession ==
    [][\A p \in Callers : \A op \in ResendOps :
          (Starts(p, op)
             /\ calls'[p].arg.sessionToken = NoToken
             /\ \E u \in FindByIdentifier(users, calls'[p].arg.identifier) :
                    ActiveSessionsOf(redis, ResendFlowOf(op), u) # {})
          => /\ calls'[p].pc = "resend:session"
             /\ \E u \in FindByIdentifier(users, calls'[p].arg.identifier) :
                    calls'[p].loc.storedSessionId
                        \in ActiveSessionsOf(redis, ResendFlowOf(op), u)]_vars

----------------------------------------------------------------------------
(* Two resends for the same user at once *)

\* A resend is called with a token, or with the email as it is stored.
RaceInputs ==
    {[sessionToken |-> t, identifier |-> Undefined] : t \in MintedIds}
        \cup {[sessionToken |-> NoToken, identifier |-> "b@x.com"]}

\* The state a completed signupService leaves: the user it created, the
\* session under id 1 and the index entries of the user's identifiers.
InitRace ==
    \E otp \in GeneratedOtps :
        LET user == NewUser([email |-> "b@x.com", username |-> "bob",
                             phoneNumber |-> Undefined, password |-> "Passw0rd!b"])
            session == SignupSession(user, "u2", otp, 1)
            identifiers == Identifiers(<<user.email, user.phoneNumber, user.username>>)
        IN  /\ redis = Exec(<<>>, OtpBatch("signup", identifiers, 1, session), 1)
            /\ users = [id \in {"u1", "u2"} |-> IF id = "u1" THEN SeedUser ELSE user]
            /\ now = 1
            /\ ticks = 0
            /\ nextId = 2
            /\ issued = {}
            /\ calls = [p \in Callers |-> Idle]
            /\ log = {}
            /\ linked = identifiers \X {1}
            /\ origin = Chained(<<>>, NoToken, 1, session)

\* Resends for the user that overlap
MaxRaceIds == 3
RaceNext ==
    \E p \in Callers :
        \/ ResendStartWith(p, "signup", MaxRaceIds, RaceInputs)
        \/ ResendSession(p, "signup", MaxRaceIds)
        \/ ResendFind(p, "signup", MaxRaceIds)
        \/ ResendDel(p, "signup") \/ ResendExec(p, "signup")
        \/ Deliver(p)
SpecRace == InitRace /\ [][RaceNext]_vars

\* The sessions the index entries of the identifiers of user u resolve to
ResolvedSessionsOf(store, flow, u) ==
    {Get(store, IndexKey(flow, x)) :
        x \in {y \in Identifiers(<<users[u].email, users[u].phoneNumber,
                                   users[u].username>>) : Resolves(store, flow, y)}}

\* C37: in every state and for each flow, the index entries of a user's
\* identifiers that resolve name one and the same session, and at most one
\* session of the flow is stored for the user, also while two resends for the
\* user overlap.
C37_OneActiveSessionPerUser ==
    \A flow \in {"signup", "forgot"} : \A u \in DOMAIN users :
        /\ Cardinality(ResolvedSessionsOf(redis, flow, u)) <= 1
        /\ Cardinality(ActiveSessionsOf(redis, flow, u)) <= 1

----------------------------------------------------------------------------
(* Inactivity of a sign-in session *)

\* The stored session the refresh token names has been idle for longer than
\* the inactivity ceiling.
IdleTooLong(token) ==
    /\ Exists(redis, getSessionKey(token.sessionId))
    /\ redis[getSessionKey(token.sessionId)].val.type = SIGNIN
    /\ now - redis[getSessionKey(token.sessionId)].val.lastActivityAt
           > INACTIVITY_LOGOUT_DAYS * SECONDS_PER_DAY

\* C38: a refresh or a rotate that presents a valid refresh token of a stored
\* session idle for longer than the inactivity ceiling ends at once without
\* tokens and without a write.
C38_InactiveSessionIsTerminal ==
    [][\A p \in Callers : \A op \in TokenOps :
          (Starts(p, op)
             /\ TokenRefusal(calls'[p].arg.refreshToken, now) = None
             /\ IdleTooLong(calls'[p].arg.refreshToken))
          => /\ calls'[p].pc = "done"
             /\ ~calls'[p].res.ok
             /\ NothingChanges]_vars

----------------------------------------------------------------------------
(* The expiry of a rate-limit counter *)

\* A request of the key is between its INCR and its PEXPIRE.
AboutToExpire(k) ==
    \E p \in Callers :
        calls[p].pc = "limit:pexpire" /\ getRateLimitKey(calls[p].arg.key) = k

\* C39: every stored counter has an expiry, so that a blocked client is
\* permitted again after the window, except while the request that created
\* the counter is between its increment and its set-expiry call.
C39_CounterAlwaysExpires ==
    \A k \in CounterKeys(redis) : ~AboutToExpire(k) => redis[k].exp # NoExpiry

----------------------------------------------------------------------------
(* What a password reset leaves alone *)

\* Sign-in, refresh, signup and the forgot-password flow up to the reset, one
\* call after the other.
MaxResetIds == 3
ResetNext ==
    \E p \in Sequential :
        \/ SigninFind(p) \/ SigninExec(p)
        \/ RefreshGet(p) \/ RefreshSetex(p)
        \/ SignupFind(p) \/ SignupCreate(p, MaxResetIds) \/ SignupExec(p)
        \/ ResendStart(p, "forgot", MaxResetIds)
        \/ ResendSession(p, "forgot", MaxResetIds)
        \/ ResendFind(p, "forgot", MaxResetIds)
        \/ ResendDel(p, "forgot") \/ ResendExec(p, "forgot")
        \/ ResetGet(p) \/ ResetUpdate(p) \/ ResetExec(p)
        \/ Deliver(p)
SpecReset == Init /\ [][ResetNext]_vars

\* The keys a reset of the session under sessionToken may delete when the
\* directory returned user.
ResetKeys(sessionToken, user) ==
    {getSessionKey(sessionToken)}
        \cup {getUserForgotKey(x) :
                 x \in Identifiers(<<user.email, user.phoneNumber, user.username>>)}

\* C40: the step that completes a successful resetPasswordService removes
\* the RESET_PASSWORD session and the forgot index entries of the user and
\* nothing else: every other key (SIGNIN sessions, session sets, signup index
\* entries) keeps its value and its expiry, and no token is withdrawn.
C40_ResetLeavesSessionsAlone ==
    [][\A p \in Callers :
          (Ends(p, "resetPassword") /\ calls'[p].res.ok) =>
              LET gone == ResetKeys(calls[p].arg.sessionToken,
                                    calls[p].loc.updatedUser)
              IN  /\ DOMAIN redis' = DOMAIN redis \ gone
                  /\ \A k \in DOMAIN redis' : redis'[k] = redis[k]
                  /\ \A k \in gone \cap DOMAIN redis :
                         k[1] = "auth:session" => redis[k].val.type = RESET_PASSWORD
                  /\ issued' = issued]_vars

\* A password reset has succeeded while a SIGNIN session of the user, the
\* user's session set and a signup index entry are stored.
C40_Witness ==
    \E p \in Callers :
        /\ Succeeded(p, "resetPassword")
        /\ StoredSigninSessions # {}
        /\ \E pair \in StoredSigninSessions :
               /\ pair[1] \in SMembers(redis, getUserSessionsKey(pair[2]))
               /\ users[pair[2]].password # hashPassword("Passw0rd!a")
        /\ \E k \in DOMAIN redis : k[1] = "auth:signup"

\* A refresh token issued before the password was reset has been honored
\* afterwards.
RefreshAfterReset ==
    \E p \in Callers :
        /\ Succeeded(p, "refresh")
        /\ users[calls[p].arg.refreshToken.sub].password # hashPassword("Passw0rd!a")
        /\ \E entry \in log : entry[1] = "resetPassword"

====
